---------------------------- MODULE Spec2Model ----------------------------
(***************************************************************************)
(* A model of the google-genai HTTP client layer vendored in AI_Bot:       *)
(*   - ApiClient.upload_file, the chunked upload loop (_api_client.py)     *)
(*   - ReplayApiClient, the record/replay harness (_replay_api_client.py)  *)
(*   - _patch_http_options, the options merge (_api_client.py)             *)
(*   - ApiClient.request and its streamed variants (_api_client.py)        *)
(*   - t_resolve_operation, the polling loop (_transformers.py)            *)
(* Each subsystem has its own specification (SpecUpload, SpecReplay,       *)
(* SpecOptions, SpecApi, SpecPoll); the variables of the other subsystems   *)
(* stay at their initial values.                                           *)
(***************************************************************************)
EXTENDS Integers, Sequences, FiniteSets, TLC

VARIABLES
    \* ---- ApiClient.upload_file ----
    file,            \* content of the file at file_path, a sequence of bytes
    upload_size,     \* the upload_size argument
    keep_history,    \* sent and responses hold every item, or only the last
    file_pos,        \* read position of the open file object
    offset,          \* local variable offset
    upload_pc,       \* "loop" | "awaiting" | "returned" | "raised"
    sent,            \* the upload requests put on the wire, in order
    responses,       \* the responses received, in order
    upload_outcome,  \* what the call returned or raised
    \* ---- ReplayApiClient ----
    mode,                \* self._mode
    replay_id,           \* self._replay_id, split at "/"
    replay_session,      \* self.replay_session: <<>> is None, <<s>> a ReplayFile
    replay_index,        \* self._replay_index (Unset before initialization)
    sdk_response_index,  \* self._sdk_response_index (Unset before initialization)
    disk,                \* the replay file of each path: <<>> absent, <<f>> its JSON
    recorded,            \* the requests, as the caller issued them, behind disk
    recording,           \* the same for the session being recorded
    ncalls,              \* operations performed so far
    last,                \* the last call on the client and how it ended
    \* ---- _patch_http_options ----
    heap,            \* the dict objects that options refer to, by address
    options,         \* the argument options, the base configuration
    patch_options,   \* the argument patch_options, the override
    copy_option,     \* what the last merge returned: <<>> before the first
    merges,          \* number of merges applied
    merge_outcome,   \* "none" | "return" | "KeyError"
    \* ---- ApiClient.request, request_streamed, async_request_streamed ----
    vertexai,          \* self.vertexai
    api_op,            \* the entry point called, "none" before the call
    api_pc,            \* "idle" | "created" | "streaming" | "returned" | "raised"
    api_args,          \* the arguments of the call, as the caller gave them
    request_dict,      \* the caller's mapping request_dict
    built,             \* the request _build_request made: <<>> or <<r>>
    transport,         \* what was handed to the transport, in order
    session_response,  \* the HttpResponse of the send: <<>> or <<r>>
    pending,           \* decoded segments the generator has yet to yield
    received,          \* the segments the consumer received, in order
    response_payload,  \* the caller's slot: <<>> no slot, <<d>> its entries
    api_outcome,       \* what the call returned or raised
    \* ---- t_resolve_operation ----
    operation,       \* local variable operation
    total_seconds,   \* local variable total_seconds
    delay_seconds,   \* local variable delay_seconds, a fraction
    polls,           \* the reports the GET polls returned, in order
    sleeps,          \* the delays slept, in order
    poll_pc,         \* "idle" | "called" | "loop" | "returned" | "raised"
    poll_outcome,    \* what the call returned or raised
    \* ---- ApiClient._request, _async_request: credentials ----
    credentials,     \* self._credentials: <<>> is None, <<c>> a credentials object
    fetches,         \* calls of google.auth.default that returned credentials
    wire,            \* the sends that reached the backend, in order
    auth_outcome,     \* how the last send ended
    \* ---- ReplayApiClient._request on worker threads ----
    workers,         \* each worker thread's position in _request and its locals
    started,         \* calls of _request started so far
    overlapped,      \* a call started while another was running
    matched,         \* the calls that reached _match_request, and against what
    \* ---- app.py: the web server's request handlers ----
    latest_audio_response,  \* the module's slot: <<>> is None, <<b>> the bytes b
    handlers,        \* each handler thread's position and locals
    accepted,        \* requests accepted so far
    stores,          \* assignments of line 62 so far
    answered         \* the responses sent, oldest first

uploadVars == <<file, upload_size, keep_history, file_pos, offset, upload_pc,
                sent, responses, upload_outcome>>

replayVars == <<mode, replay_id, replay_session, replay_index,
                sdk_response_index, disk, recorded, recording, ncalls, last>>

optionsVars == <<heap, options, patch_options, copy_option, merges,
                 merge_outcome>>

apiVars == <<vertexai, api_op, api_pc, api_args, request_dict, built, transport,
             session_response, pending, received, response_payload,
             api_outcome>>

pollVars == <<operation, total_seconds, delay_seconds, polls, sleeps,
              poll_pc, poll_outcome>>

authVars == <<credentials, fetches, wire, auth_outcome>>

raceVars == <<workers, started, overlapped, matched>>

serverVars == <<latest_audio_response, handlers, accepted, stores, answered>>

vars == <<uploadVars, replayVars, optionsVars, apiVars, pollVars, authVars,
          raceVars, serverVars>>

(***************************************************************************)
(* Bounds of the model.                                                    *)
(***************************************************************************)
\* file.read(1024 * 1024 * 8): the chunk size, scaled down from 8 MiB so
\* that files of a few bytes span several chunks.
ChunkSize == 2
\* longest file content enumerated
MaxFileLen == 5
\* cap on the number of upload requests of one call (the loop itself has none)
MaxRequests == 4
\* cap on the number of calls made on one replay client
MaxCalls == 3

Bytes == {0, 1}

Files == UNION {[1..n -> Bytes] : n \in 0..MaxFileLen}

\* upload_size may be equal to, smaller or larger than the file's length
UploadSizes == 0..(MaxFileLen + 1)

(***************************************************************************)
(* Helpers on sequences.                                                   *)
(***************************************************************************)
Min(a, b) == IF a <= b THEN a ELSE b

\* file.read(n) at position pos: at most n bytes, empty at end of file
FileRead(f, pos, n) == SubSeq(f, pos + 1, Min(pos + n, Len(f)))

RECURSIVE ConcatData(_)
\* the payloads of a sequence of requests, concatenated in send order
ConcatData(reqs) ==
    IF reqs = <<>> THEN <<>>
    ELSE ConcatData(SubSeq(reqs, 1, Len(reqs) - 1)) \o reqs[Len(reqs)].data

(***************************************************************************)
(* ApiClient.upload_file                                                   *)
(***************************************************************************)
\* The server's answers to one chunk: X-Goog-Upload-Status and the body.
\* "cancelled" stands for every status that is neither active nor final.
UploadStatuses == {"active", "final", "cancelled"}
ResponseBodies == {"", "json"}
NoResponse == [status |-> "none", body |-> "none"]
NoOutcome == [kind |-> "none", msg |-> "none", response |-> NoResponse]

\* line 404: if chunk_size + offset >= upload_size
IsLastChunkFlip(chunk_size, off, size) == chunk_size + off > size
IsLastChunk(chunk_size, off, size) == chunk_size + off >= size

\* lines 402-405
UploadCommand(chunk_size, off, size) ==
    IF IsLastChunk(chunk_size, off, size) THEN "upload, finalize" ELSE "upload"

\* line 418: offset += chunk_size
AdvanceOffsetStale(off, chunk_size) == off
AdvanceOffset(off, chunk_size) == off + chunk_size

\* line 422: if upload_size <= offset
AllContentUploadedStrict(size, off) == size < off
AllContentUploaded(size, off) == size <= off

\* line 428: if response.headers['X-Goog-Upload-Status'] != 'final'
NotFinalizedAny(status) == FALSE
NotFinalized(status) == status # "final"

\* the log of requests or responses with one more item
Logged(log, item) == IF keep_history THEN Append(log, item) ELSE <<item>>

\* lines 407-416: the request of one chunk; str() of a number is kept as
\* the number
UploadRequest(file_chunk, off, size) ==
    [command        |-> UploadCommand(Len(file_chunk), off, size),
     offset         |-> off,
     content_length |-> Len(file_chunk),
     data           |-> file_chunk]

\* lines 398-417: read a chunk, build the request and send it
UploadSendChunk ==
    /\ upload_pc = "loop"
    /\ Len(sent) < MaxRequests
    /\ LET file_chunk == FileRead(file, file_pos, ChunkSize) IN
        /\ file_pos' = file_pos + Len(file_chunk)
        /\ sent' = Logged(sent, UploadRequest(file_chunk, offset, upload_size))
    /\ upload_pc' = "awaiting"
    /\ UNCHANGED <<file, upload_size, keep_history, offset, responses, upload_outcome>>
    /\ UNCHANGED <<replayVars, optionsVars, apiVars, pollVars, authVars, raceVars, serverVars>>

\* lines 417-433 with a 2xx response carrying an upload status
UploadReceive(status, body) ==
    /\ upload_pc = "awaiting"
    /\ LET response   == [status |-> status, body |-> body]
           chunk_size == sent[Len(sent)].content_length
           off        == AdvanceOffset(offset, chunk_size)
       IN
        /\ responses' = Logged(responses, response)
        /\ offset' = off
        /\ IF status # "active"
           THEN \* break, then lines 428-433
                IF NotFinalized(status)
                THEN /\ upload_pc' = "raised"
                     /\ upload_outcome' =
                          [kind |-> "ValueError",
                           msg |-> "Failed to upload file: Upload status is not finalized.",
                           response |-> response]
                ELSE /\ upload_pc' = "returned"
                     /\ upload_outcome' =
                          [kind |-> "return", msg |-> body,
                           response |-> response]
           ELSE IF AllContentUploaded(upload_size, off)
                THEN /\ upload_pc' = "raised"
                     /\ upload_outcome' =
                          [kind |-> "ValueError",
                           msg |-> "All content has been uploaded, but the upload status is not finalized.",
                           response |-> response]
                ELSE /\ upload_pc' = "loop"
                     /\ UNCHANGED upload_outcome
    /\ UNCHANGED <<file, upload_size, keep_history, file_pos, sent>>
    /\ UNCHANGED <<replayVars, optionsVars, apiVars, pollVars, authVars, raceVars, serverVars>>

\* line 417: _request_unauthorized raises APIError for a failure status
\* (errors.APIError.raise_for_response); the exception leaves upload_file
UploadReceiveError ==
    /\ upload_pc = "awaiting"
    /\ upload_pc' = "raised"
    /\ upload_outcome' = [kind |-> "APIError", msg |-> "none",
                          response |-> NoResponse]
    /\ UNCHANGED <<file, upload_size, keep_history, file_pos, offset, sent, responses>>
    /\ UNCHANGED <<replayVars, optionsVars, apiVars, pollVars, authVars, raceVars, serverVars>>

\* line 419: a 2xx response without the X-Goog-Upload-Status header:
\* response.headers[...] raises KeyError after offset was advanced
UploadReceiveNoStatus ==
    /\ upload_pc = "awaiting"
    /\ offset' = AdvanceOffset(offset, sent[Len(sent)].content_length)
    /\ upload_pc' = "raised"
    /\ upload_outcome' = [kind |-> "KeyError", msg |-> "X-Goog-Upload-Status",
                          response |-> NoResponse]
    /\ UNCHANGED <<file, upload_size, keep_history, file_pos, sent, responses>>
    /\ UNCHANGED <<replayVars, optionsVars, apiVars, pollVars, authVars, raceVars, serverVars>>

UploadNext ==
    \/ UploadSendChunk
    \/ \E status \in UploadStatuses, body \in ResponseBodies :
          UploadReceive(status, body)
    \/ UploadReceiveError
    \/ UploadReceiveNoStatus

(***************************************************************************)
(* Strings of the replay harness.  A URL, a path or a header value is the  *)
(* sequence of its pieces between "/" (str.split('/')): "a/b/" is          *)
(* <<"a", "b", "">>.  The pieces used are whole path segments, so a        *)
(* regular expression of the source matches at piece boundaries.           *)
(***************************************************************************)
UrlMldev == <<"https:", "", "generativelanguage.googleapis.com", "v1beta",
              "models", "m:generateContent">>
UrlVertex == <<"https:", "", "us-aiplatform.googleapis.com", "v1beta1",
               "projects", "p", "locations", "l", "models", "m:generateContent">>
\* upload_file records url=''
UrlEmpty == <<"">>

PathModel == <<"models", "m">>
PathTuned == <<"projects", "p", "locations", "l", "models", "m">>
\* "projects/projects/p/locations/l/locations/l/"
PathNested == <<"projects", "projects", "p", "locations", "l", "locations",
                "l", "">>
PathFile == <<"tmp", "a.txt">>

\* the version header value 'google-genai-sdk/0.3.0 gl-python/3.12.1'
\* (_api_client.py lines 54-56), cut around the version numbers and the
\* language label
VersionHeader == <<"google-genai-sdk/", "0.3.0", " ", "gl-python/", "3.12.1">>
VersionNumbers == {"0.3.0", "3.12.1", "0.4.0", "3.13.2"}

\* a string value and a bytes value of a request body
Str(s) == [type |-> "str", text |-> s]
BytesOf(s) == [type |-> "bytes", text |-> s]
\* a value that is an object holding the string s: {'name': s}
Nested(s) == [type |-> "dict", text |-> s]

HeadersMldev ==
    [h \in {"Content-Type", "x-goog-api-key", "user-agent", "x-goog-api-client"} |->
        CASE h = "Content-Type" -> <<"application", "json">>
          [] h = "x-goog-api-key" -> <<"AIzaKey">>
          [] OTHER -> VersionHeader]
HeadersVertex ==
    [h \in {"Content-Type", "user-agent", "x-goog-api-client"} |->
        IF h = "Content-Type" THEN <<"application", "json">> ELSE VersionHeader]
HeadersEmpty == [h \in {} |-> <<>>]

(***************************************************************************)
(* Redaction (_replay_api_client.py lines 37-105)                          *)
(***************************************************************************)
\* lines 37-39: re.sub(r'\d+\.\d+\.\d+', '{VERSION_NUMBER}', s)
RedactVersionNumbers(v) ==
    [i \in 1..Len(v) |-> IF v[i] \in VersionNumbers THEN "{VERSION_NUMBER}" ELSE v[i]]

\* lines 42-44: re.sub(r'gl-python/', '{LANGUAGE_LABEL}/', s)
RedactLanguageLabel(v) ==
    [i \in 1..Len(v) |-> IF v[i] = "gl-python/" THEN "{LANGUAGE_LABEL}/" ELSE v[i]]

\* lines 47-63; header_name.lower() of the names used is the name itself
RedactRequestHeaders(headers) ==
    [h \in DOMAIN headers |->
        IF h = "x-goog-api-key" THEN <<"{REDACTED}">>
        ELSE IF h \in {"user-agent", "x-goog-api-client"}
             THEN RedactLanguageLabel(RedactVersionNumbers(headers[h]))
             ELSE headers[h]]

\* 'projects/[^/]+/locations/[^/]+/' matches at piece i
MatchesProjectLocation(s, i) ==
    /\ i + 4 <= Len(s)
    /\ s[i] = "projects"
    /\ s[i + 1] # ""
    /\ s[i + 2] = "locations"
    /\ s[i + 3] # ""

\* lines 69-73: re.sub(r'.*/projects/[^/]+/locations/[^/]+/',
\* '{VERTEX_URL_PREFIX}/', url): the greedy .* takes the last match, which
\* needs a "/" before "projects"
RedactVertexPrefix(url) ==
    LET hits == {i \in 2..Len(url) : MatchesProjectLocation(url, i)} IN
    IF hits = {} THEN url
    ELSE LET i == CHOOSE j \in hits : \A k \in hits : k <= j IN
         <<"{VERTEX_URL_PREFIX}">> \o SubSeq(url, i + 4, Len(url))

\* 'https://generativelanguage.googleapis.com/[^/]+' matches at piece i
MatchesMldev(s, i) ==
    /\ i + 3 <= Len(s)
    /\ s[i] = "https:"
    /\ s[i + 1] = ""
    /\ s[i + 2] = "generativelanguage.googleapis.com"
    /\ s[i + 3] # ""

RECURSIVE RedactMldevPrefixFrom(_, _)
\* lines 74-78: re.sub replaces the matches from left to right
RedactMldevPrefixFrom(s, i) ==
    IF i > Len(s) THEN <<>>
    ELSE IF MatchesMldev(s, i)
         THEN <<"{MLDEV_URL_PREFIX}">> \o RedactMldevPrefixFrom(s, i + 4)
         ELSE <<s[i]>> \o RedactMldevPrefixFrom(s, i + 1)

\* lines 66-79
RedactRequestUrl(url) == RedactMldevPrefixFrom(RedactVertexPrefix(url), 1)

RECURSIVE RedactProjectLocationFrom(_, _)
\* lines 86-90: re.sub replaces the matches from left to right; a match
\* takes the "/" after the location and the replacement puts it back
RedactProjectLocationFrom(s, i) ==
    IF i > Len(s) THEN <<>>
    ELSE IF MatchesProjectLocation(s, i)
         THEN <<"{PROJECT_AND_LOCATION_PATH}">> \o RedactProjectLocationFrom(s, i + 4)
         ELSE <<s[i]>> \o RedactProjectLocationFrom(s, i + 1)

\* lines 82-93: 'projects/' in path and 'locations/' in path
RedactProjectLocationPath(path) ==
    IF /\ \E i \in 1..(Len(path) - 1) : path[i] = "projects"
       /\ \E i \in 1..(Len(path) - 1) : path[i] = "locations"
    THEN RedactProjectLocationFrom(path, 1)
    ELSE path

\* lines 96-99: only the values that are str are rewritten
RedactRequestBody(body) ==
    [k \in DOMAIN body |->
        IF body[k].type = "str"
        THEN Str(RedactProjectLocationPath(body[k].text))
        ELSE body[k]]

\* lines 102-105
RedactHttpRequest(http_request) ==
    [method  |-> http_request.method,
     url     |-> RedactRequestUrl(http_request.url),
     headers |-> RedactRequestHeaders(http_request.headers),
     data    |-> RedactRequestBody(http_request.data)]

(***************************************************************************)
(* JSON texts and values.  A decoded value is Obj(items) for a JSON object *)
(* or EmptyStr for the Python str ''.  json.dumps writes "{\"a\": 1}"      *)
(* where the wire may carry "{\"a\":1}".                                    *)
(***************************************************************************)
Obj(items) == [kind |-> "dict", items |-> items]
EmptyStr == [kind |-> "str", items |-> {}]
EmptyObj == Obj({})
ObjA == Obj({<<"a", 1>>})
ObjB == Obj({<<"b", 2>>})
ObjFile == Obj({<<"file", 3>>})

\* json.loads
JsonLoads(text) ==
    CASE text \in {"{\"a\":1}", "{\"a\": 1}"} -> ObjA
      [] text \in {"{\"b\":2}", "{\"b\": 2}"} -> ObjB
      [] text = "{\"file\": 3}" -> ObjFile
      [] text = "{}" -> EmptyObj
      [] text = "\"\"" -> EmptyStr
      [] text = "{\"error\": 400}" -> Obj({<<"error", 400>>})

\* json.dumps
JsonDumps(value) ==
    CASE value = ObjA -> "{\"a\": 1}"
      [] value = ObjB -> "{\"b\": 2}"
      [] value = ObjFile -> "{\"file\": 3}"
      [] value = EmptyObj -> "{}"
      [] value = EmptyStr -> "\"\""
      [] value = Obj({<<"error", 400>>}) -> "{\"error\": 400}"

\* _api_client.py lines 131-132: strip the b'data: ' prefix of a line
StripDataPrefix(line) ==
    CASE line = "data: {\"a\":1}" -> "{\"a\":1}"
      [] line = "data: {\"b\":2}" -> "{\"b\":2}"
      [] OTHER -> line

RECURSIVE SegmentsOfLines(_)
\* _api_client.py lines 127-133: HttpResponse.segments over iter_lines()
SegmentsOfLines(lines) ==
    IF lines = <<>> THEN <<>>
    ELSE IF Head(lines) = "" THEN SegmentsOfLines(Tail(lines))
         ELSE <<JsonLoads(StripDataPrefix(Head(lines)))>>
                 \o SegmentsOfLines(Tail(lines))

\* _api_client.py lines 121-124: HttpResponse.segments over a list
SegmentsOfList(response_stream) ==
    [i \in 1..Len(response_stream) |->
        IF response_stream[i] = "" THEN EmptyObj
        ELSE JsonLoads(response_stream[i])]

\* _api_client.py lines 114-118: HttpResponse.text of a non-empty list
TextOfEmpty(response_stream) == EmptyStr
TextOf(response_stream) ==
    IF response_stream[1] = "" THEN EmptyStr ELSE JsonLoads(response_stream[1])

(***************************************************************************)
(* ReplayApiClient: data                                                   *)
(***************************************************************************)
Modes == {"record", "replay", "auto", "api"}

\* replay ids, split at "/": "tests/generate/mldev" and "tests/generate"
ReplayIdMldev == <<"tests", "generate", "mldev">>
ReplayIdShort == <<"tests", "generate">>
ReplayIds == {ReplayIdMldev, ReplayIdShort}

\* self.replays_directory
ReplaysDirectory == <<"replays">>

\* _replay_index and _sdk_response_index are not set by __init__
Unset == -1

\* line 265: len(session_parts) < 3 raises ValueError
PathValidLoose(id) == Len(id) >= 2
PathValid(id) == Len(id) >= 3

\* lines 263-275: the path of a valid id, '.json' as the last piece
GenerateFilePathFromReplayId(dir, id) == dir \o id \o <<".json">>

Paths == {GenerateFilePathFromReplayId(ReplaysDirectory, id) :
             id \in {i \in ReplayIds : PathValid(i)}}

HttpRequest(method, url, headers, data) ==
    [method |-> method, url |-> url, headers |-> headers, data |-> data]

\* the requests handed to _request by the callers
ReqA == HttpRequest("post", UrlMldev, HeadersMldev, [k \in {"name"} |-> Str(PathModel)])
ReqB == HttpRequest("post", UrlVertex, HeadersVertex, [k \in {"name"} |-> Str(PathModel)])
ReqC == HttpRequest("get", UrlMldev, HeadersVertex, [k \in {"name"} |-> Str(PathModel)])
ReqD == HttpRequest("get", UrlMldev, HeadersMldev, [k \in {"name"} |-> BytesOf(PathTuned)])
ReqE == HttpRequest("post", UrlMldev, HeadersMldev, [k \in {"name"} |-> Str(PathNested)])
ReqF == HttpRequest("post", UrlMldev, HeadersMldev, [k \in {"name"} |-> Str(PathTuned)])
NoRequest == HttpRequest("none", <<>>, HeadersEmpty, [k \in {} |-> Str(<<>>)])

\* line 429-431: the request upload_file records
UploadFileRequest(file_path) ==
    HttpRequest("POST", UrlEmpty, HeadersEmpty, [k \in {"file_path"} |-> Str(file_path)])

\* headers of a live response; Date changes from call to call
LiveResponseHeaders ==
    [h \in {"Content-Type", "Date"} |->
        IF h = "Content-Type" THEN <<"application", "json">> ELSE <<"now">>]

\* lines 166-170: ReplayResponse.model_post_init drops Date and Server-Timing
DropVolatileHeaders(headers) ==
    [h \in (DOMAIN headers) \ {"Date", "Server-Timing"} |-> headers[h]]

\* what the live backend answers to one request: a failure status (which
\* ApiClient._request turns into an APIError) or a 200 with the body text
\* (stream=False) or the lines of the body (stream=True)
LiveError == [kind |-> "APIError", code |-> 400, body |-> <<>>]
LiveOk(body) == [kind |-> "ok", code |-> 200, body |-> body]
NoAnswer == [kind |-> "none", code |-> 0, body |-> <<>>]
\* a streamed body of three lines, one of them empty
StreamedLines == <<"data: {\"a\":1}", "", "data: {\"b\":2}">>
LiveAnswers(stream) ==
    IF stream
    THEN {LiveError, LiveOk(<<>>), LiveOk(StreamedLines)}
    ELSE {LiveError, LiveOk(<<"">>), LiveOk(<<"{\"a\":1}">>)}

\* what ApiClient.upload_file gives on the live backend: the parsed body of
\* the final response ('' when it is empty) or a ValueError
LiveUploads == {[kind |-> "return", value |-> ObjFile],
                [kind |-> "return", value |-> EmptyStr],
                [kind |-> "ValueError", value |-> EmptyStr]}

\* the serialized domain objects handed to _verify_response
SdkResponses == {ObjA, ObjB}

\* errors.APIError.raise_for_response: a failure status raises
RaiseForResponse(status_code) == status_code \notin 200..299

\* APIError._to_replay_record(): the error as a JSON object
ErrorRecord(code) == Obj({<<"error", code>>})

NoMsg == <<>>
\* the cursors and the number of interactions of the session on entry of a
\* call (loaded: replay_session is not None)
NoEntry == [loaded |-> FALSE, idx |-> Unset, sdk |-> Unset, n |-> 0]

\* How a call ended: kind is "return" or the exception raised, live the
\* number of calls it made to the backend, at the assert that failed, msg
\* what the exception carries; request, stream and answer are the call's
\* arguments and the backend's answer, entry the state it started from.
NoOutcomeOf(op) ==
    [op |-> op, kind |-> "none", live |-> 0, request |-> NoRequest,
     at |-> "none", msg |-> NoMsg, code |-> 0, response_stream |-> <<>>,
     value |-> EmptyStr, stream |-> FALSE, answer |-> NoAnswer,
     entry |-> NoEntry]

\* a call that returned nothing (None)
Returned(op) == [NoOutcomeOf(op) EXCEPT !.kind = "return"]
Raised(op, kind, msg) == [NoOutcomeOf(op) EXCEPT !.kind = kind, !.msg = msg]

(***************************************************************************)
(* ReplayApiClient: the methods, as functions of the client's fields.      *)
(* A client c is [mode, id, session, idx, sdk, disk, recording, recorded];  *)
(* a method gives [c |-> the client afterwards, out |-> how it ended].      *)
(***************************************************************************)
ReplayFile(id) == [replay_id |-> id, interactions |-> <<>>]

\* lines 224-227
GetReplayFilePath(c) == GenerateFilePathFromReplayId(ReplaysDirectory, c.id)

\* os.path.isfile(self._get_replay_file_path()), for a valid id
ReplayFileExists(c) == c.disk[GetReplayFilePath(c)] # <<>>

\* lines 229-233; in auto mode the path is computed, which raises
\* ValueError for an id of fewer than 3 segments
ShouldCallApiRaises(c) == c.mode = "auto" /\ ~PathValid(c.id)
ShouldCallApiAuto(c) == c.mode \in {"record", "api", "auto"}
ShouldCallApi(c) ==
    \/ c.mode \in {"record", "api"}
    \/ c.mode = "auto" /\ ~ReplayFileExists(c)

\* lines 235-236
ShouldUpdateReplayAlways(c) == ShouldCallApi(c)
ShouldUpdateReplay(c) == ShouldCallApi(c) /\ c.mode # "api"

\* the pieces of a ValueError's text: the replay id and the fixed wording
SessionIdError == <<<<": Session ID must be in the format of module/function/[vertex|mldev]">>>>

\* lines 242-261: _initialize_replay_session
InitializeSession(c, op) ==
    LET c1 == [c EXCEPT !.idx = 0, !.sdk = 0] IN
    IF ~PathValid(c1.id)
    THEN [c |-> c1, out |-> Raised(op, "ValueError", <<c1.id>> \o SessionIdError)]
    ELSE IF c1.mode = "replay" /\ ~ReplayFileExists(c1)
    THEN [c |-> c1, out |-> Raised(op, "ValueError",
                               <<<<"Replay files do not exist for replay id: ">>, c1.id>>)]
    ELSE LET c2 == IF c1.mode \in {"replay", "auto"} /\ ReplayFileExists(c1)
                   THEN [c1 EXCEPT !.session = <<c1.disk[GetReplayFilePath(c1)][1]>>]
                   ELSE c1
             c3 == IF ShouldUpdateReplay(c2)
                   THEN [c2 EXCEPT !.session = <<ReplayFile(c2.id)>>,
                                   !.recording = <<>>]
                   ELSE c2
         IN [c |-> c3, out |-> Returned(op)]

\* lines 238-240: _initialize_replay_session_if_not_loaded
InitializeSessionIfNotLoaded(c, op) ==
    IF c.session = <<>> THEN InitializeSession(c, op)
    ELSE [c |-> c, out |-> Returned(op)]

\* json.dumps(..., cls=RequestJsonEncoder) then json.loads, lines 343-345,
\* and json.dumps(..., cls=ResponseJsonEncoder) of close(): a bytes value
\* becomes the str it decodes to
JsonBody(body) ==
    [k \in DOMAIN body |->
        IF body[k].type = "bytes" THEN Str(body[k].text) ELSE body[k]]

\* lines 336-345: the body compared, redacted once more on a copy
ActualRequestBody(data) == <<JsonBody(RedactRequestBody(data))>>

\* lines 322-351: the first assert of _match_request that fails on the
\* redacted request, "none" when all four pass
MatchRequestMethodFirst(q, interaction) ==
    IF q.method # interaction.request.method THEN "method"
    ELSE IF q.url # interaction.request.url THEN "url"
    ELSE IF q.headers # interaction.request.headers THEN "headers"
    ELSE IF ActualRequestBody(q.data) # interaction.request.body_segments THEN "body"
    ELSE "none"
MatchRequest(q, interaction) ==
    IF q.url # interaction.request.url THEN "url"
    ELSE IF q.headers # interaction.request.headers THEN "headers"
    ELSE IF q.method # interaction.request.method THEN "method"
    ELSE IF ActualRequestBody(q.data) # interaction.request.body_segments THEN "body"
    ELSE "none"

\* lines 327-351: what the AssertionError of a failed assert carries; the
\* asserts on url and method have no message
MismatchMessage(at, q, interaction) ==
    CASE at = "headers" ->
           <<"Request headers mismatch:", q.headers, interaction.request.headers>>
      [] at = "body" ->
           <<"Request body mismatch:", ActualRequestBody(q.data),
             interaction.request.body_segments>>
      [] OTHER -> NoMsg

\* lines 359-360: self._replay_index += 1; self._sdk_response_index = 0
AdvanceCursorStuck(c) == [c EXCEPT !.sdk = 0]
AdvanceCursorByTwo(c) == [c EXCEPT !.idx = c.idx + 2, !.sdk = 0]
AdvanceCursor(c) == [c EXCEPT !.idx = c.idx + 1, !.sdk = 0]

\* lines 353-368: _build_response_from_replay
BuildResponseFromReplay(c, http_request, op) ==
    LET q == RedactHttpRequest(http_request) IN
    IF c.session = <<>>
    THEN \* None has no attribute 'interactions'
         [c |-> c, out |-> Raised(op, "AttributeError", <<"interactions">>)]
    ELSE LET interactions == c.session[1].interactions IN
    IF c.idx + 1 > Len(interactions)
    THEN [c |-> c, out |-> Raised(op, "IndexError", <<"list index out of range">>)]
    ELSE LET interaction == interactions[c.idx + 1]
             at == MatchRequest(q, interaction)
         IN
    IF at # "none"
    THEN [c |-> c,
          out |-> [Raised(op, "AssertionError", MismatchMessage(at, q, interaction))
                      EXCEPT !.at = at]]
    ELSE LET c1 == AdvanceCursor(c) IN
    IF RaiseForResponse(interaction.response.status_code)
    THEN [c |-> c1,
          out |-> [Raised(op, "APIError", NoMsg)
                      EXCEPT !.code = interaction.response.status_code]]
    ELSE [c |-> c1,
          out |-> [Returned(op) EXCEPT
                      !.response_stream =
                          [i \in 1..Len(interaction.response.body_segments) |->
                              JsonDumps(interaction.response.body_segments[i])]]]

\* lines 290-320: _record_interaction, given the response to record
RecordInteraction(c, http_request, status_code, headers, body_segments) ==
    IF ~ShouldUpdateReplay(c) THEN [c |-> c, raised |-> "none"]
    ELSE IF \E i \in 1..Len(body_segments) : body_segments[i].kind # "dict"
    THEN \* ReplayResponse.body_segments is list[dict[str, object]]
         [c |-> c, raised |-> "ValidationError"]
    ELSE IF c.session = <<>>
    THEN [c |-> c, raised |-> "AttributeError"]
    ELSE LET q == RedactHttpRequest(http_request)
             interaction ==
                [request  |-> [method |-> q.method, url |-> q.url,
                               headers |-> q.headers,
                               body_segments |-> <<q.data>>],
                 response |-> [status_code |-> status_code,
                               headers |-> DropVolatileHeaders(headers),
                               body_segments |-> body_segments,
                               sdk_response_segments |-> <<>>]]
         IN [c |-> [c EXCEPT !.session[1].interactions = Append(@, interaction),
                             !.recording = Append(@, http_request)],
             raised |-> "none"]

\* the response_stream ReplayApiClient._request builds from a live 200:
\* lines 413-417 drain a stream and dump each segment again
Rematerialize(stream, body) ==
    IF stream
    THEN LET segs == SegmentsOfLines(body) IN
         [i \in 1..Len(segs) |-> JsonDumps(segs[i])]
    ELSE body

\* lines 400-426: ReplayApiClient._request; live is the backend's answer,
\* used when the call goes to the backend
DoRequest(c, http_request, stream, live) ==
    LET op == "_request"
        r0 == InitializeSessionIfNotLoaded(c, op)
        c1 == r0.c
    IN
    IF r0.out.kind # "return" THEN r0
    ELSE IF ShouldCallApiRaises(c1)
    THEN [c |-> c1, out |-> Raised(op, "ValueError", <<c1.id>> \o SessionIdError)]
    ELSE IF ShouldCallApi(c1)
    THEN IF live.kind = "APIError"
         THEN LET rec == RecordInteraction(c1, http_request, live.code,
                             LiveResponseHeaders, <<ErrorRecord(live.code)>>)
              IN [c |-> rec.c,
                  out |-> [Raised(op, "APIError", NoMsg)
                              EXCEPT !.code = live.code, !.live = 1]]
         ELSE LET response_stream == Rematerialize(stream, live.body)
                  rec == RecordInteraction(c1, http_request, 200,
                             LiveResponseHeaders, SegmentsOfList(response_stream))
              IN IF response_stream = <<>>
                 THEN \* line 423: result.text reads response_stream[0]
                      [c |-> rec.c,
                       out |-> [Raised(op, "IndexError", <<"list index out of range">>)
                                   EXCEPT !.live = 1]]
                 ELSE [c |-> rec.c,
                       out |-> [Returned(op) EXCEPT
                                   !.live = 1,
                                   !.response_stream = response_stream]]
    ELSE BuildResponseFromReplay(c1, http_request, op)

\* lines 428-444: ReplayApiClient.upload_file; live is what
\* ApiClient.upload_file gives when the call goes to the backend
DoUploadFile(c, file_path, live) ==
    LET op == "upload_file"
        request == UploadFileRequest(file_path)
    IN
    IF ShouldCallApiRaises(c)
    THEN [c |-> c, out |-> Raised(op, "ValueError", <<c.id>> \o SessionIdError)]
    ELSE IF ShouldCallApi(c)
    THEN IF live.kind # "return"
         THEN [c |-> c, out |-> [Raised(op, live.kind, NoMsg) EXCEPT !.live = 1]]
         ELSE LET rec == RecordInteraction(c, request, 200, HeadersEmpty,
                             SegmentsOfList(<<JsonDumps(live.value)>>))
              IN IF rec.raised # "none"
                 THEN [c |-> rec.c,
                       out |-> [Raised(op, rec.raised, NoMsg) EXCEPT !.live = 1]]
                 ELSE [c |-> rec.c,
                       out |-> [Returned(op) EXCEPT !.live = 1,
                                                     !.value = live.value]]
    ELSE LET r == BuildResponseFromReplay(c, request, op) IN
         IF r.out.kind # "return" THEN r
         ELSE IF r.out.response_stream = <<>>
         THEN [c |-> r.c, out |-> Raised(op, "IndexError", <<"list index out of range">>)]
         ELSE [c |-> r.c,
               out |-> [Returned(op) EXCEPT !.value = TextOf(r.out.response_stream)]]

\* line 374: interactions[self._replay_index - 1] of n interactions, as a
\* position from 1; index -1 is the last one, 0 stands for no such item
VerifiedPositionFirst(c, n) == IF n = 0 THEN 0 ELSE 1
VerifiedPosition(c, n) == IF c.idx = 0 THEN n ELSE c.idx

\* line 398: self._sdk_response_index += 1
AdvanceSdkCursorStuck(c) == c
AdvanceSdkCursor(c) == [c EXCEPT !.sdk = c.sdk + 1]

\* lines 370-398: ReplayApiClient._verify_response
DoVerifyResponse(c, response_model) ==
    LET op == "_verify_response" IN
    IF c.mode = "api" THEN [c |-> c, out |-> Returned(op)]
    ELSE IF c.session = <<>>
    THEN [c |-> c, out |-> Raised(op, "AttributeError", <<"interactions">>)]
    ELSE LET interactions == c.session[1].interactions
             pos == VerifiedPosition(c, Len(interactions))
         IN
    IF pos = 0 \/ pos > Len(interactions)
    THEN [c |-> c, out |-> Raised(op, "IndexError", <<"list index out of range">>)]
    ELSE IF ShouldCallApiRaises(c)
    THEN [c |-> c, out |-> Raised(op, "ValueError", <<c.id>> \o SessionIdError)]
    ELSE IF ShouldUpdateReplay(c)
    THEN [c |-> [c EXCEPT !.session[1].interactions[pos].response.sdk_response_segments =
                              Append(@, response_model)],
          out |-> Returned(op)]
    ELSE LET segs == interactions[pos].response.sdk_response_segments IN
    IF c.sdk + 1 > Len(segs)
    THEN [c |-> c, out |-> Raised(op, "IndexError", <<"list index out of range">>)]
    ELSE LET actual == JsonDumps(response_model)
             expected == JsonDumps(segs[c.sdk + 1])
         IN
    IF actual # expected
    THEN [c |-> c,
          out |-> [Raised(op, "AssertionError",
                          <<"SDK response mismatch:", actual, expected>>)
                      EXCEPT !.at = "sdk"]]
    ELSE [c |-> AdvanceSdkCursor(c), out |-> Returned(op)]

\* lines 283-287: json.dumps(self.replay_session.model_dump(), indent=2,
\* cls=ResponseJsonEncoder): the document written to the replay file
PersistEmpty(session) ==
    [replay_id |-> session.replay_id, interactions |-> <<>>]
Persist(session) ==
    [replay_id |-> session.replay_id,
     interactions |->
        [i \in 1..Len(session.interactions) |->
            [session.interactions[i] EXCEPT
                !.request.body_segments =
                    [j \in 1..Len(@) |-> JsonBody(@[j])]]]]

\* lines 277-288: ReplayApiClient.close
DoClose(c) ==
    LET op == "close" IN
    IF ShouldCallApiRaises(c)
    THEN [c |-> c, out |-> Raised(op, "ValueError", <<c.id>> \o SessionIdError)]
    ELSE IF ~ShouldUpdateReplay(c) \/ c.session = <<>>
    THEN [c |-> c, out |-> Returned(op)]
    ELSE IF ~PathValid(c.id)
    THEN [c |-> c, out |-> Raised(op, "ValueError", <<c.id>> \o SessionIdError)]
    ELSE [c |-> [c EXCEPT !.disk[GetReplayFilePath(c)] = <<Persist(c.session[1])>>,
                          !.recorded = c.recording,
                          !.session = <<>>],
          out |-> Returned(op)]

\* lines 220-222: ReplayApiClient.initialize_replay_session
DoInitializeReplaySession(c, id) ==
    InitializeSession([c EXCEPT !.id = id], "initialize_replay_session")

(***************************************************************************)
(* ReplayApiClient: the actions                                            *)
(***************************************************************************)
Client ==
    [mode |-> mode, id |-> replay_id, session |-> replay_session,
     idx |-> replay_index, sdk |-> sdk_response_index, disk |-> disk,
     recording |-> recording, recorded |-> recorded]

EntryOf(c) ==
    [loaded |-> c.session # <<>>, idx |-> c.idx, sdk |-> c.sdk,
     n |-> IF c.session = <<>> THEN 0 ELSE Len(c.session[1].interactions)]

\* the client's fields and the call's outcome after a method ran
Becomes(c, out) ==
    /\ ncalls < MaxCalls
    /\ mode' = c.mode
    /\ replay_id' = c.id
    /\ replay_session' = c.session
    /\ replay_index' = c.idx
    /\ sdk_response_index' = c.sdk
    /\ disk' = c.disk
    /\ recording' = c.recording
    /\ recorded' = c.recorded
    /\ last' = [out EXCEPT !.entry = EntryOf(Client)]
    /\ ncalls' = ncalls + 1

\* no send on a client with credentials
AuthIdle ==
    /\ credentials = <<>>
    /\ fetches = 0
    /\ wire = <<>>
    /\ auth_outcome = "none"

\* a worker thread outside _request: pc is "idle" | "initialize" | "build" |
\* "match" | "advance" | "store" | "returned" | "raised"; k is the number
\* of its call, index the cursor it read at line 356, tmp the cursor it
\* loaded for line 359
IdleWorker ==
    [pc |-> "idle", request |-> NoRequest, k |-> 0, index |-> 0, tmp |-> 0,
     kind |-> "none"]
Workers == {1, 2}

\* no call of _request on a worker thread
RaceIdle ==
    /\ workers = [w \in Workers |-> IdleWorker]
    /\ started = 0
    /\ overlapped = FALSE
    /\ matched = {}

\* a handler thread between requests
IdleHandler == [pc |-> "idle", audio_data |-> <<>>, audio_stream |-> <<>>]
Handlers == {1, 2}

\* app.py line 23: the slot starts as None, no request was handled
ServerIdle ==
    /\ latest_audio_response = <<>>
    /\ handlers = [h \in Handlers |-> IdleHandler]
    /\ accepted = 0
    /\ stores = 0
    /\ answered = <<>>

\* nothing is being merged
OptionsIdle ==
    /\ heap = <<>>
    /\ options = <<>>
    /\ patch_options = <<>>
    /\ copy_option = <<>>
    /\ merges = 0
    /\ merge_outcome = "none"

\* no call on the ApiClient
ApiIdle ==
    /\ vertexai = FALSE
    /\ api_op = "none"
    /\ api_pc = "idle"
    /\ api_args = <<>>
    /\ request_dict = <<>>
    /\ built = <<>>
    /\ transport = <<>>
    /\ session_response = <<>>
    /\ pending = <<>>
    /\ received = <<>>
    /\ response_payload = <<>>
    /\ api_outcome = [kind |-> "none", value |-> EmptyStr]

\* no operation is being resolved
PollIdle ==
    /\ operation = <<>>
    /\ total_seconds = 0
    /\ delay_seconds = [num |-> 0, den |-> 1]
    /\ polls = <<>>
    /\ sleeps = <<>>
    /\ poll_pc = "idle"
    /\ poll_outcome = [kind |-> "none", value |-> <<>>]

\* the upload loop is not running
UploadIdle ==
    /\ file = <<>>
    /\ upload_size = 0
    /\ keep_history = TRUE
    /\ file_pos = 0
    /\ offset = 0
    /\ upload_pc = "idle"
    /\ sent = <<>>
    /\ responses = <<>>
    /\ upload_outcome = NoOutcome

\* lines 190-218: ReplayApiClient.__init__ over a replays directory dsk
FreshClient(m, id, dsk, rec) ==
    [mode |-> m, id |-> id, session |-> <<>>, idx |-> Unset, sdk |-> Unset,
     disk |-> dsk, recording |-> <<>>, recorded |-> rec]

EmptyDisk == [p \in Paths |-> <<>>]

\* One step of a recording test: a request, the live backend's answer to
\* it, and the domain objects the test then hands to _verify_response.
Step(http_request, stream, live, verified) ==
    [request |-> http_request, stream |-> stream, live |-> live,
     verified |-> verified]

RECURSIVE VerifyAll(_, _)
VerifyAll(c, models) ==
    IF models = <<>> THEN c
    ELSE VerifyAll(DoVerifyResponse(c, Head(models)).c, Tail(models))

RECURSIVE RunScript(_, _)
\* the client after the steps of a recording test ran on it
RunScript(c, script) ==
    IF script = <<>> THEN c
    ELSE LET step == Head(script)
             c1 == DoRequest(c, step.request, step.stream, step.live).c
         IN RunScript(VerifyAll(c1, step.verified), Tail(script))

\* the client a test leaves behind that constructed a record-mode client,
\* ran the script on it and closed it: its disk holds the replay file and
\* its field recorded the requests as they were issued
Recorded(script) ==
    DoClose(RunScript(FreshClient("record", ReplayIdMldev, EmptyDisk, <<>>),
                      script)).c

\* a record-mode client that was constructed and nothing else: the replays
\* directory is empty
NoRecording == FreshClient("record", ReplayIdMldev, EmptyDisk, <<>>)
\* the client a test leaves behind that initialized its replay session and
\* closed it without a request: a replay file with no interactions
EmptyRecording ==
    DoClose(DoInitializeReplaySession(NoRecording, ReplayIdMldev).c).c

\* the client is constructed in a replays directory that earlier recording
\* tests (scripts) left behind, or in that of one of the clients others
ReplayInitOver(modes, ids, scripts, others) ==
    /\ UploadIdle
    /\ OptionsIdle
    /\ ApiIdle
    /\ PollIdle
    /\ AuthIdle
    /\ RaceIdle
    /\ ServerIdle
    /\ mode \in modes
    /\ replay_id \in ids
    /\ replay_session = <<>>
    /\ replay_index = Unset
    /\ sdk_response_index = Unset
    /\ \E left \in {Recorded(s) : s \in scripts} \cup others :
          /\ disk = left.disk
          /\ recorded = left.recorded
    /\ recording = <<>>
    /\ ncalls = 0
    /\ last = NoOutcomeOf("__init__")

\* no replay client in use
ReplayIdle ==
    /\ mode = "api"
    /\ replay_id = ReplayIdMldev
    /\ replay_session = <<>>
    /\ replay_index = Unset
    /\ sdk_response_index = Unset
    /\ disk = EmptyDisk
    /\ recording = <<>>
    /\ recorded = <<>>
    /\ ncalls = 0
    /\ last = NoOutcomeOf("__init__")

\* request / request_streamed reach _request with the built request
Request(http_request, stream, live) ==
    /\ LET r == DoRequest(Client, http_request, stream, live) IN
          Becomes(r.c, [r.out EXCEPT !.request = http_request,
                                     !.stream = stream,
                                     !.answer = IF r.out.live = 0 THEN NoAnswer
                                                ELSE live])
    /\ UNCHANGED <<uploadVars, optionsVars, apiVars, pollVars, authVars, raceVars, serverVars>>

UploadFile(file_path, live) ==
    /\ LET r == DoUploadFile(Client, file_path, live) IN
          Becomes(r.c, [r.out EXCEPT !.request = UploadFileRequest(file_path)])
    /\ UNCHANGED <<uploadVars, optionsVars, apiVars, pollVars, authVars, raceVars, serverVars>>

VerifyResponse(response_model) ==
    /\ LET r == DoVerifyResponse(Client, response_model) IN
          Becomes(r.c, [r.out EXCEPT !.value = response_model])
    /\ UNCHANGED <<uploadVars, optionsVars, apiVars, pollVars, authVars, raceVars, serverVars>>

Close ==
    /\ LET r == DoClose(Client) IN Becomes(r.c, r.out)
    /\ UNCHANGED <<uploadVars, optionsVars, apiVars, pollVars, authVars, raceVars, serverVars>>

InitializeReplaySession(id) ==
    /\ LET r == DoInitializeReplaySession(Client, id) IN Becomes(r.c, r.out)
    /\ UNCHANGED <<uploadVars, optionsVars, apiVars, pollVars, authVars, raceVars, serverVars>>

\* SpecReplay: a client of any mode and id, in a replays directory that is
\* empty or holds the file of an earlier recording, driven through every
\* method.
ReplayScripts ==
    {<<>>,
     <<Step(ReqA, TRUE, LiveOk(StreamedLines), <<ObjA>>),
       Step(ReqF, FALSE, LiveError, <<>>)>>}

ReplayInit == ReplayInitOver(Modes, ReplayIds, ReplayScripts, {NoRecording})

\* the calls of _request in SpecReplay: the request, the stream flag and
\* the answer of the backend should the call reach it; the first request
\* with every answer, the second with one
ReplayCalls ==
    UNION {{<<ReqA, stream, live>> : live \in LiveAnswers(stream)} : stream \in BOOLEAN}
        \cup {<<ReqF, FALSE, LiveOk(<<"{\"a\":1}">>)>>}

ReplayNext ==
    \/ \E call \in ReplayCalls : Request(call[1], call[2], call[3])
    \/ \E live \in LiveUploads : UploadFile(PathFile, live)
    \/ \E response_model \in SdkResponses : VerifyResponse(response_model)
    \/ Close
    \/ \E id \in ReplayIds : InitializeReplaySession(id)

SpecReplay == ReplayInit /\ [][ReplayNext]_vars

(***************************************************************************)
(* SpecEnv: a record-mode client that records calls built in different     *)
(* environments and closes.  An environment is the API key, the project,   *)
(* the location and the SDK and Python versions the client runs with.      *)
(***************************************************************************)
Keys == {"AIzaKey", "AIzaOther"}
EnvBase == [key |-> "AIzaKey", project |-> "p", location |-> "l",
            sdk |-> "0.3.0", python |-> "3.12.1"]
Envs ==
    {EnvBase,
     [EnvBase EXCEPT !.key = "AIzaOther"],
     [EnvBase EXCEPT !.project = "q"],
     [EnvBase EXCEPT !.location = "k"],
     [EnvBase EXCEPT !.sdk = "0.4.0"],
     [EnvBase EXCEPT !.python = "3.13.2"],
     [key |-> "AIzaOther", project |-> "q", location |-> "k",
      sdk |-> "0.4.0", python |-> "3.13.2"]}

\* f'{location}-aiplatform.googleapis.com'
HostOf(location) ==
    IF location = "l" THEN "l-aiplatform.googleapis.com"
    ELSE "k-aiplatform.googleapis.com"

EnvVersionHeader(env) == <<"google-genai-sdk/", env.sdk, " ", "gl-python/", env.python>>

EnvHeaders(backend, env) ==
    IF backend = "mldev"
    THEN [h \in {"Content-Type", "x-goog-api-key", "user-agent", "x-goog-api-client"} |->
            CASE h = "Content-Type" -> <<"application", "json">>
              [] h = "x-goog-api-key" -> <<env.key>>
              [] OTHER -> EnvVersionHeader(env)]
    ELSE [h \in {"Content-Type", "user-agent", "x-goog-api-client"} |->
            IF h = "Content-Type" THEN <<"application", "json">>
            ELSE EnvVersionHeader(env)]

EnvUrl(backend, env) ==
    IF backend = "mldev" THEN UrlMldev
    ELSE <<"https:", "", HostOf(env.location), "v1beta1", "projects", env.project,
           "locations", env.location, "models", "m:generateContent">>

\* 'projects/<project>/locations/<location>/models/m'
EnvPath(env) == <<"projects", env.project, "locations", env.location, "models", "m">>

\* the logical calls: what is called, whatever the environment
LogicalCalls == {"generate_mldev", "generate_vertex", "tuned_vertex", "nested_vertex"}

\* the request the SDK builds for a logical call in an environment
EnvRequest(call, env) ==
    CASE call = "generate_mldev" ->
           HttpRequest("post", EnvUrl("mldev", env), EnvHeaders("mldev", env),
                       [k \in {"name"} |-> Str(PathModel)])
      [] call = "generate_vertex" ->
           HttpRequest("post", EnvUrl("vertex", env), EnvHeaders("vertex", env),
                       [k \in {"name"} |-> Str(PathModel)])
      [] call = "tuned_vertex" ->
           HttpRequest("post", EnvUrl("vertex", env), EnvHeaders("vertex", env),
                       [k \in {"name"} |-> Str(EnvPath(env))])
      [] call = "nested_vertex" ->
           HttpRequest("post", EnvUrl("vertex", env), EnvHeaders("vertex", env),
                       [k \in {"config"} |-> Nested(EnvPath(env))])

EnvRequests == {EnvRequest(call, env) : call \in LogicalCalls, env \in Envs}

EnvInit == ReplayInitOver({"record"}, {ReplayIdMldev}, {}, {NoRecording})

EnvNext ==
    \/ \E q \in EnvRequests : Request(q, FALSE, LiveOk(<<"{\"a\":1}">>))
    \/ Close

SpecEnv == EnvInit /\ [][EnvNext]_vars

(***************************************************************************)
(* SpecAuto: the session of one auto-mode client constructed in an empty   *)
(* replays directory, from its first call to its close(), while another    *)
(* client may write the replay file of the same id.                        *)
(***************************************************************************)
AutoInit == ReplayInitOver({"auto"}, {ReplayIdMldev}, {}, {NoRecording})

\* the recordings the other client closes
OtherScripts ==
    {<<Step(ReqA, FALSE, LiveOk(<<"{\"a\":1}">>), <<>>)>>,
     <<Step(ReqB, FALSE, LiveOk(<<"{\"a\":1}">>), <<>>)>>}

\* the calls of _request: two requests, the backend answering with a body
\* or with a failure status
AutoCalls ==
    {<<q, FALSE, live>> : q \in {ReqA, ReqB},
                          live \in {LiveOk(<<"{\"b\":2}">>), LiveError}}

SessionOpen == last.op # "close"

\* a call of _request before the client is closed
AutoRequest(http_request, stream, live) ==
    /\ SessionOpen
    /\ Request(http_request, stream, live)

\* close() ends the session
AutoClose ==
    /\ SessionOpen
    /\ Close

\* lines 277-288 on another client of the same replay id: its close()
\* writes the replay file of its recording
FixtureWritten(script) ==
    /\ disk[GetReplayFilePath(Client)] = <<>>
    /\ disk' = Recorded(script).disk
    /\ recorded' = Recorded(script).recorded
    /\ UNCHANGED <<mode, replay_id, replay_session, replay_index,
                   sdk_response_index, recording, ncalls, last>>
    /\ UNCHANGED <<uploadVars, optionsVars, apiVars, pollVars, authVars, raceVars, serverVars>>

AutoNext ==
    \/ \E call \in AutoCalls : AutoRequest(call[1], call[2], call[3])
    \/ AutoClose
    \/ \E script \in OtherScripts : FixtureWritten(script)

SpecAuto == AutoInit /\ [][AutoNext]_vars

(***************************************************************************)
(* SpecRace: one replay-mode client whose _request runs on two worker      *)
(* threads (asyncio.to_thread of _api_client.py lines 298 and 304), a      *)
(* thread switch being possible between any two statements.                *)
(***************************************************************************)
\* calls of _request started on the client
MaxRaceCalls == 3

\* the recording the client replays
RaceScripts ==
    {<<Step(ReqA, FALSE, LiveOk(<<"{\"a\":1}">>), <<>>),
       Step(ReqB, TRUE, LiveOk(StreamedLines), <<>>),
       Step(ReqA, FALSE, LiveError, <<>>)>>}

RaceInit == ReplayInitOver({"replay"}, {ReplayIdMldev}, RaceScripts, {})

AtRest(w) == workers[w].pc \in {"idle", "returned", "raised"}

\* the worker ends its call with an exception
Fails(w, kind) ==
    workers' = [workers EXCEPT ![w].pc = "raised", ![w].kind = kind]

\* lines 238-239 and 405: the worker enters _request(q) and tests
\* self.replay_session
Enters(w, q) ==
    /\ AtRest(w)
    /\ started < MaxRaceCalls
    /\ started' = started + 1
    /\ overlapped' = (overlapped \/ \E v \in Workers \ {w} : ~AtRest(v))
    /\ workers' = [workers EXCEPT ![w] =
          [IdleWorker EXCEPT !.pc = IF replay_session = <<>> THEN "initialize"
                                    ELSE "build",
                             !.request = q,
                             !.k = started + 1]]
    /\ UNCHANGED <<replayVars, matched>>
    /\ UNCHANGED <<uploadVars, optionsVars, apiVars, pollVars, authVars, serverVars>>

\* lines 240 and 242-261: the worker found no session and initializes it
Initializes(w) ==
    /\ workers[w].pc = "initialize"
    /\ LET r == InitializeSession(Client, "_request")
       IN /\ replay_session' = r.c.session
          /\ replay_index' = r.c.idx
          /\ sdk_response_index' = r.c.sdk
          /\ recording' = r.c.recording
          /\ IF r.out.kind # "return" THEN Fails(w, r.out.kind)
             ELSE workers' = [workers EXCEPT ![w].pc = "build"]
    /\ UNCHANGED <<mode, replay_id, disk, recorded, ncalls, last>>
    /\ UNCHANGED <<started, overlapped, matched>>
    /\ UNCHANGED <<uploadVars, optionsVars, apiVars, pollVars, authVars, serverVars>>

\* lines 406, 426 and 354-356: _should_call_api() is false, the worker
\* reads interactions[self._replay_index]
Reads(w) ==
    /\ workers[w].pc = "build"
    /\ ~ShouldCallApi(Client)
    /\ IF replay_index + 1 > Len(replay_session[1].interactions)
       THEN Fails(w, "IndexError")
       ELSE workers' = [workers EXCEPT ![w].pc = "match",
                                       ![w].index = replay_index]
    /\ UNCHANGED <<replayVars, started, overlapped, matched>>
    /\ UNCHANGED <<uploadVars, optionsVars, apiVars, pollVars, authVars, serverVars>>

\* line 358: _match_request(http_request, interaction)
Matches(w) ==
    /\ workers[w].pc = "match"
    /\ LET interaction == replay_session[1].interactions[workers[w].index + 1]
           at == MatchRequest(RedactHttpRequest(workers[w].request), interaction)
       IN /\ matched' = matched \cup {[k |-> workers[w].k,
                                        position |-> workers[w].index + 1,
                                        passed |-> at = "none"]}
          /\ IF at # "none" THEN Fails(w, "AssertionError")
             ELSE workers' = [workers EXCEPT ![w].pc = "advance"]
    /\ UNCHANGED <<replayVars, started, overlapped>>
    /\ UNCHANGED <<uploadVars, optionsVars, apiVars, pollVars, authVars, serverVars>>

\* line 359, self._replay_index += 1: the worker loads the cursor
Loads(w) ==
    /\ workers[w].pc = "advance"
    /\ workers' = [workers EXCEPT ![w].pc = "store", ![w].tmp = replay_index]
    /\ UNCHANGED <<replayVars, started, overlapped, matched>>
    /\ UNCHANGED <<uploadVars, optionsVars, apiVars, pollVars, authVars, serverVars>>

\* lines 359-368: the worker stores the cursor it loaded plus one, resets
\* the sdk cursor and returns the recorded response or raises its error
Stores(w) ==
    /\ workers[w].pc = "store"
    /\ LET c == AdvanceCursor([Client EXCEPT !.idx = workers[w].tmp])
           interaction == replay_session[1].interactions[workers[w].index + 1]
       IN /\ replay_index' = c.idx
          /\ sdk_response_index' = c.sdk
          /\ IF RaiseForResponse(interaction.response.status_code)
             THEN Fails(w, "APIError")
             ELSE workers' = [workers EXCEPT ![w].pc = "returned",
                                             ![w].kind = "return"]
    /\ UNCHANGED <<mode, replay_id, replay_session, disk, recorded, recording,
                   ncalls, last>>
    /\ UNCHANGED <<started, overlapped, matched>>
    /\ UNCHANGED <<uploadVars, optionsVars, apiVars, pollVars, authVars, serverVars>>

RaceNext ==
    \/ \E w \in Workers, q \in {ReqA, ReqB} : Enters(w, q)
    \/ \E w \in Workers : Initializes(w)
    \/ \E w \in Workers : Reads(w)
    \/ \E w \in Workers : Matches(w)
    \/ \E w \in Workers : Loads(w)
    \/ \E w \in Workers : Stores(w)

SpecRace == RaceInit /\ [][RaceNext]_vars

\* SpecMatch: a replay-mode client over the file a recording test left
\* behind, for every recording of at most MaxRecorded requests.
MaxRecorded == 2

RecordableSteps ==
    {Step(ReqA, FALSE, LiveOk(<<"{\"a\":1}">>), <<ObjA, ObjB>>),
     Step(ReqB, TRUE, LiveOk(StreamedLines), <<>>),
     Step(ReqD, FALSE, LiveError, <<>>),
     Step(ReqE, FALSE, LiveOk(<<"{\"a\":1}">>), <<ObjA>>),
     Step(ReqA, FALSE, LiveOk(<<"">>), <<>>)}

MatchScripts == UNION {[1..n -> RecordableSteps] : n \in 0..MaxRecorded}

Requests == {ReqA, ReqB, ReqC, ReqD, ReqE, ReqF}

MatchInit ==
    ReplayInitOver({"replay"}, {ReplayIdMldev}, MatchScripts, {EmptyRecording})

MatchNext ==
    \/ \E q \in Requests : Request(q, FALSE, LiveError)
    \/ \E response_model \in SdkResponses : VerifyResponse(response_model)

SpecMatch == MatchInit /\ [][MatchNext]_vars

(***************************************************************************)
(* The options merge (_api_client.py lines 38-89).  An HttpOptions is a    *)
(* dict, here a function from its keys to values; a value is None, a str   *)
(* (split at "/") or a reference to a dict object.  The dict objects live  *)
(* in heap, a sequence indexed by address, so that two options that hold   *)
(* the same dict object hold the same address.  A header map is a function *)
(* from header names to values cut as VersionHeader is.                    *)
(***************************************************************************)
NoneValue == [t |-> "none", s |-> <<>>, ref |-> 0]
StrValue(s) == [t |-> "str", s |-> s, ref |-> 0]
DictValue(address) == [t |-> "dict", s |-> <<>>, ref |-> address]

\* dict.update(e) on a copy of d
Updated(d, e) ==
    [k \in (DOMAIN d) \cup (DOMAIN e) |-> IF k \in DOMAIN e THEN e[k] ELSE d[k]]

\* d with d[k] = v
WithKey(d, k, v) == Updated(d, [j \in {k} |-> v])

\* marker in value, for two strs
Contains(value, marker) ==
    \E i \in 0..(Len(value) - Len(marker)) :
        SubSeq(value, i + 1, i + Len(marker)) = marker

\* lines 57-63 and 64-70: one of the two headers gets the marker, once
AppendedAlways(headers, name) ==
    IF name \in DOMAIN headers
    THEN WithKey(headers, name, headers[name] \o <<" ">> \o VersionHeader)
    ELSE WithKey(headers, name, VersionHeader)
Appended(headers, name) ==
    IF name \in DOMAIN headers /\ ~Contains(headers[name], VersionHeader)
    THEN WithKey(headers, name, headers[name] \o <<" ">> \o VersionHeader)
    ELSE IF name \notin DOMAIN headers
         THEN WithKey(headers, name, VersionHeader)
         ELSE headers

\* lines 51-70: _append_library_version_headers, the dict after the call
AppendLibraryVersionHeaders(headers) ==
    Appended(Appended(headers, "user-agent"), "x-goog-api-client")

\* the order in which a dict of options yields its items
KeyOrder == <<"base_url", "api_version", "headers", "response_payload">>

RECURSIVE PatchItems(_, _, _, _)
\* lines 79-87: the loop over patch_options.items(), from the i-th key on;
\* m is the heap and the copy so far
PatchItems(m, opts, patch, i) ==
    IF i > Len(KeyOrder) THEN m
    ELSE LET k == KeyOrder[i]
         IN IF k \notin DOMAIN patch THEN PatchItems(m, opts, patch, i + 1)
            ELSE LET v == patch[k]
                 IN IF v.t = "dict" /\ k \in DOMAIN m.copy /\ m.copy[k].t = "dict"
                    THEN \* lines 83-85: a new dict, filled from both
                         PatchItems(
                             [heap |-> Append(m.heap,
                                              Updated(m.heap[opts[k].ref],
                                                      m.heap[v.ref])),
                              copy |-> WithKey(m.copy, k,
                                               DictValue(Len(m.heap) + 1))],
                             opts, patch, i + 1)
                    ELSE IF v.t # "none"
                         THEN \* lines 86-87: any value but None, '' too
                              PatchItems([m EXCEPT !.copy = WithKey(m.copy, k, v)],
                                         opts, patch, i + 1)
                         ELSE PatchItems(m, opts, patch, i + 1)

\* lines 73-89: _patch_http_options over the heap h; gives the heap after
\* the call and what it returned, or the KeyError of line 88
PatchHttpOptions(h, opts, patch) ==
    LET m == PatchItems([heap |-> h, copy |-> opts], opts, patch, 1)
    IN IF "headers" \notin DOMAIN m.copy
       THEN [heap |-> m.heap, copy |-> <<>>, kind |-> "KeyError"]
       ELSE LET address == m.copy["headers"].ref
            IN [heap |-> [m.heap EXCEPT ![address] =
                             AppendLibraryVersionHeaders(m.heap[address])],
                copy |-> <<m.copy>>,
                kind |-> "return"]

\* the value of an option with the dict it refers to: what the caller reads
Deref(h, v) ==
    [t |-> v.t, s |-> v.s, entries |-> IF v.t = "dict" THEN h[v.ref] ELSE <<>>]
\* an HttpOptions as the caller reads it
Config(h, opts) == [k \in DOMAIN opts |-> Deref(h, opts[k])]

(***************************************************************************)
(* SpecOptions: a base configuration and an override, merged once and then *)
(* the override merged again into what the merge returned.                 *)
(***************************************************************************)
\* number of times the override is merged
MaxMerges == 3

UrlOther == <<"https:", "", "example.com", "">>
\* a header value without the marker
CustomAgent == <<"custom-agent/", "1.0.0">>
NoHeaders == [h \in {} |-> <<>>]
\* header maps of a base configuration: none, empty, lines 193-195 before
\* and after the marker was appended, and one with an agent of the caller
BaseHeaders ==
    {<<>>, <<NoHeaders>>,
     <<[h \in {"Content-Type"} |-> <<"application", "json">>]>>,
     <<HeadersMldev>>,
     <<[h \in {"user-agent"} |-> CustomAgent]>>}
\* header entries of an override: no entry, None, or a header map
PatchHeaders ==
    {<<>>, <<NoneValue>>} \cup
    {<<DictValue(0), d>> :
        d \in {NoHeaders,
               [h \in {"user-agent"} |-> CustomAgent],
               [h \in {"x-goog-api-client"} |-> VersionHeader],
               [h \in {"x-goog-api-key"} |-> <<"AIzaOther">>]}}
\* base_url entries of an override: no entry, None, '' or an address
PatchUrls == {<<>>, <<NoneValue>>, <<StrValue(<<"">>)>>, <<StrValue(UrlOther)>>}

\* the options dict with the entries given (<<>> for no entry)
OptionsOf(base_url, headers) ==
    [k \in (IF base_url = <<>> THEN {} ELSE {"base_url"})
             \cup (IF headers = <<>> THEN {} ELSE {"headers"}) |->
        IF k = "base_url" THEN base_url[1] ELSE headers[1]]

OptionsInit ==
    /\ UploadIdle
    /\ ReplayIdle
    /\ ApiIdle
    /\ PollIdle
    /\ AuthIdle
    /\ RaceIdle
    /\ ServerIdle
    /\ \E bh \in BaseHeaders, ph \in PatchHeaders, pu \in PatchUrls :
          LET base_heap == IF bh = <<>> THEN <<>> ELSE <<bh[1]>>
              patched == Len(ph) = 2
          IN /\ heap = IF patched THEN Append(base_heap, ph[2]) ELSE base_heap
             /\ options =
                   OptionsOf(<<StrValue(<<"https:", "", "generativelanguage.googleapis.com", "">>)>>,
                             IF bh = <<>> THEN <<>> ELSE <<DictValue(1)>>)
             /\ patch_options =
                   OptionsOf(pu,
                             IF patched THEN <<DictValue(Len(base_heap) + 1)>>
                             ELSE ph)
    /\ copy_option = <<>>
    /\ merges = 0
    /\ merge_outcome = "none"

\* the result of a merge becomes the state
Merged(m) ==
    /\ merges < MaxMerges
    /\ heap' = m.heap
    /\ copy_option' = m.copy
    /\ merge_outcome' = m.kind
    /\ merges' = merges + 1
    /\ UNCHANGED <<options, patch_options>>
    /\ UNCHANGED <<uploadVars, replayVars, apiVars, pollVars, authVars, raceVars, serverVars>>

\* _patch_http_options(options, patch_options)
Patch ==
    /\ merge_outcome = "none"
    /\ Merged(PatchHttpOptions(heap, options, patch_options))

\* _patch_http_options(copy_option, patch_options), on what the last merge
\* returned
PatchAgain ==
    /\ merge_outcome = "return"
    /\ Merged(PatchHttpOptions(heap, copy_option[1], patch_options))

OptionsNext ==
    \/ Patch
    \/ PatchAgain

SpecOptions == OptionsInit /\ [][OptionsNext]_vars

(***************************************************************************)
(* ApiClient: building a request, sending it and reading the response      *)
(* (_api_client.py lines 107-379).  The client is the one __init__ makes   *)
(* without http_options, for project 'p' and location 'l'.  During a call  *)
(* the dict objects are: 1 the header map of self._http_options, 2 the     *)
(* caller's response_payload slot, 3 the header map of the caller's        *)
(* http_options.                                                           *)
(***************************************************************************)
\* lines 172-200: self._http_options after __init__
ClientOptions(vx) ==
    [k \in {"base_url", "api_version", "headers"} |->
        CASE k = "base_url" ->
               StrValue(IF vx THEN <<"https:", "", HostOf("l"), "">>
                        ELSE <<"https:", "", "generativelanguage.googleapis.com", "">>)
          [] k = "api_version" -> StrValue(IF vx THEN <<"v1beta1">> ELSE <<"v1beta">>)
          [] k = "headers" -> DictValue(1)]

\* the dict objects on entry of a call
CallHeap(vx) ==
    <<IF vx THEN HeadersVertex ELSE HeadersMldev,
      NoHeaders,
      [h \in {"x-goog-api-key"} |-> <<"AIzaOther">>]>>

\* 'https://example.com', an address without a trailing slash
UrlBare == <<"https:", "", "example.com">>

\* the argument http_options: None (<<>>) or a dict
HttpOptionsChoices ==
    {<<>>,
     <<[response_payload |-> DictValue(2)]>>,
     <<[response_payload |-> DictValue(2), base_url |-> StrValue(UrlBare)]>>,
     <<[headers |-> DictValue(3), base_url |-> StrValue(UrlOther)]>>}

\* 'if http_options' and 'if http_options and "response_payload" in ...'
Truthy(http_options) == http_options # <<>> /\ DOMAIN http_options[1] # {}
HasSlot(http_options) ==
    Truthy(http_options) /\ "response_payload" \in DOMAIN http_options[1]

\* key.startswith('_') on the keys in use
IsInternalKey(key) == key \in {"_url", "_query"}

\* lines 214-216: the mapping after the special keys are deleted
StripNothing(d) == d
StripInternalKeys(d) == [k \in {j \in DOMAIN d : ~IsInternalKey(j)} |-> d[k]]

\* line 224: the path gets the project and location in front
NeedsScopeAlways(vx, path) == vx
NeedsScope(vx, path) == vx /\ ~(Len(path) >= 2 /\ path[1] = "projects")

\* lines 92-96: _join_url_path.  urlparse cuts base_url into scheme and
\* netloc (the first three pieces) and the path after them.
JoinUrlPath(base_url, path) ==
    LET origin == SubSeq(base_url, 1, 3)
        parsed_path == IF Len(base_url) > 3
                       THEN <<"">> \o SubSeq(base_url, 4, Len(base_url))
                       ELSE <<"">>
        base_path == IF Len(parsed_path) >= 2 /\ parsed_path[Len(parsed_path)] = ""
                     THEN SubSeq(parsed_path, 1, Len(parsed_path) - 1)
                     ELSE parsed_path
        rel == IF Len(path) >= 2 /\ path[1] = "" THEN Tail(path) ELSE path
    IN origin \o Tail(base_path \o rel)

\* lines 206-235: _build_request
BuildRequest(vx, http_method, path, data, http_options) ==
    LET patched == IF Truthy(http_options)
                   THEN PatchHttpOptions(CallHeap(vx), ClientOptions(vx),
                                         http_options[1])
                   ELSE [heap |-> CallHeap(vx), copy |-> <<ClientOptions(vx)>>,
                         kind |-> "return"]
        patched_http_options == patched.copy[1]
        scoped == IF NeedsScope(vx, path)
                  THEN <<"projects", "p", "locations", "l">> \o path
                  ELSE path
    IN HttpRequest(http_method,
                   JoinUrlPath(patched_http_options["base_url"].s,
                               patched_http_options["api_version"].s \o scoped),
                   patched.heap[patched_http_options["headers"].ref],
                   StripInternalKeys(data))

\* lines 107-112: HttpResponse over a list (buffered) or over a connection
\* whose iter_lines() gives the items
HttpResponse(headers, buffered, items) ==
    [status_code |-> 200, headers |-> headers,
     response_stream |-> [buffered |-> buffered, items |-> items]]

\* lines 237-288: _request and _request_unauthorized; live is what the
\* backend answers.  A failure status raises before a response is made.
DoSendUnchecked(vx, http_request, stream, live) ==
    [kind |-> "return",
     session_response |-> <<HttpResponse(LiveResponseHeaders, ~stream, live.body)>>]
DoSend(vx, http_request, stream, live) ==
    IF RaiseForResponse(live.code)
    THEN [kind |-> "APIError", session_response |-> <<>>]
    ELSE [kind |-> "return",
          session_response |-> <<HttpResponse(LiveResponseHeaders, ~stream, live.body)>>]

\* the texts json.loads accepts
IsJson(text) ==
    text \in {"{\"a\":1}", "{\"a\": 1}", "{\"b\":2}", "{\"b\": 2}",
              "{\"file\": 3}", "{}", "\"\"", "{\"error\": 400}"}

\* lines 135-137: copy_to_dict writes the attributes in the order of
\* dir(): headers, response_stream, status_code, then text, which indexes
\* response_stream (lines 114-118) and so raises on a connection and on an
\* empty list.  slot is the dict before, the result the dict after and how
\* the call ended.
CopyToDict(r, slot) ==
    LET attributes == [a \in {"headers", "response_stream", "status_code"} |->
                          CASE a = "headers" -> <<r.headers>>
                            [] a = "response_stream" -> <<r.response_stream>>
                            [] a = "status_code" -> <<r.status_code>>]
    IN IF ~r.response_stream.buffered
       THEN [slot |-> Updated(slot, attributes), kind |-> "TypeError"]
       ELSE IF r.response_stream.items = <<>>
       THEN [slot |-> Updated(slot, attributes), kind |-> "IndexError"]
       ELSE [slot |-> WithKey(Updated(slot, attributes), "text",
                              <<TextOf(r.response_stream.items)>>),
             kind |-> "return"]

\* segments() yielding an empty object for an empty line of a connection
NextSegmentKeepingEmpty(buffered, chunks) ==
    IF chunks = <<>>
    THEN [kind |-> "stop", value |-> EmptyObj, rest |-> <<>>]
    ELSE IF Head(chunks) = ""
         THEN [kind |-> "yield", value |-> EmptyObj, rest |-> Tail(chunks)]
         ELSE IF IsJson(StripDataPrefix(Head(chunks)))
              THEN [kind |-> "yield", value |-> JsonLoads(StripDataPrefix(Head(chunks))),
                    rest |-> Tail(chunks)]
              ELSE [kind |-> "JSONDecodeError", value |-> EmptyObj,
                    rest |-> Tail(chunks)]

RECURSIVE NextSegment(_, _)
\* lines 120-133: HttpResponse.segments, resumed with chunks left to read:
\* the next value it yields, StopIteration, or the error of json.loads
NextSegment(buffered, chunks) ==
    IF chunks = <<>>
    THEN [kind |-> "stop", value |-> EmptyObj, rest |-> <<>>]
    ELSE LET chunk == Head(chunks)
             text == IF buffered THEN chunk ELSE StripDataPrefix(chunk)
         IN IF chunk = ""
            THEN IF buffered
                 THEN [kind |-> "yield", value |-> EmptyObj, rest |-> Tail(chunks)]
                 ELSE NextSegment(buffered, Tail(chunks))
            ELSE IF IsJson(text)
                 THEN [kind |-> "yield", value |-> JsonLoads(text),
                       rest |-> Tail(chunks)]
                 ELSE [kind |-> "JSONDecodeError", value |-> EmptyObj,
                       rest |-> Tail(chunks)]

\* a streamed body whose third line is not JSON
BrokenLines == <<"data: {\"a\":1}", "", "oops", "data: {\"b\":2}">>
\* a streamed body with a line that has no 'data: ' prefix
MixedLines == <<"{\"b\":2}", "data: {\"a\":1}", "">>
\* what the backend answers to a streamed send
StreamAnswers ==
    LiveAnswers(TRUE) \cup {LiveOk(BrokenLines), LiveOk(MixedLines)}

\* the arguments of request, request_streamed and async_request_streamed
ApiPaths == {<<"files">>, <<"files", "f">>, <<"upload", "v1beta", "files">>,
             PathTuned}
RequestDicts ==
    {[k \in {} |-> Str(<<>>)],
     [k \in {"name"} |-> Str(PathModel)],
     [k \in {"_url", "name"} |-> Str(PathModel)],
     [k \in {"_url", "_query", "name", "config"} |->
         IF k = "config" THEN Nested(PathModel) ELSE Str(PathModel)]}
ApiArgs ==
    [http_method : {"post"}, path : ApiPaths, request_dict : RequestDicts,
     http_options : HttpOptionsChoices]
NoArgs == [http_method |-> "none", path |-> <<>>,
           request_dict |-> [k \in {} |-> Str(<<>>)], http_options |-> <<>>]

\* the lists of raw segments segments() is called on
BufferedLists ==
    {<<"">>, <<"{\"a\":1}">>, <<"{\"a\":1}", "{\"b\":2}">>,
     <<"{\"a\":1}", "", "data: {\"b\":2}">>}

ApiOutcome(kind, value) == [kind |-> kind, value |-> value]

\* a client, vertexai or not, before a call
ApiInit ==
    /\ UploadIdle
    /\ ReplayIdle
    /\ OptionsIdle
    /\ PollIdle
    /\ AuthIdle
    /\ RaceIdle
    /\ ServerIdle
    /\ vertexai \in BOOLEAN
    /\ api_op = "none"
    /\ api_pc = "idle"
    /\ api_args = NoArgs
    /\ request_dict = <<>>
    /\ built = <<>>
    /\ transport = <<>>
    /\ session_response = <<>>
    /\ pending = <<>>
    /\ received = <<>>
    /\ response_payload = <<>>
    /\ api_outcome = ApiOutcome("none", EmptyStr)

\* lines 337-341 and 370-374: the request is built and sent
Sends(args, stream, live) ==
    LET http_request == BuildRequest(vertexai, args.http_method, args.path,
                                     args.request_dict, args.http_options)
    IN /\ request_dict' = http_request.data
       /\ built' = <<http_request>>
       /\ transport' = Append(transport, [request |-> http_request,
                                          stream |-> stream,
                                          status_code |-> live.code])
       /\ session_response' = DoSend(vertexai, http_request, stream, live).session_response

\* the call ends with an exception
Raises(kind) ==
    /\ api_pc' = "raised"
    /\ api_outcome' = ApiOutcome(kind, EmptyStr)

\* lines 315-328: request
ApiRequest(args, live) ==
    /\ api_pc = "idle"
    /\ api_op' = "request"
    /\ api_args' = args
    /\ Sends(args, FALSE, live)
    /\ UNCHANGED <<vertexai, pending, received>>
    /\ LET reply == DoSend(vertexai, built'[1], FALSE, live)
           slot == IF HasSlot(args.http_options) THEN <<NoHeaders>> ELSE <<>>
       IN IF reply.kind # "return"
          THEN Raises(reply.kind) /\ response_payload' = slot
          ELSE LET copied == IF slot = <<>>
                             THEN [slot |-> <<>>, kind |-> "return"]
                             ELSE CopyToDict(reply.session_response[1], slot[1])
               IN /\ response_payload' = IF slot = <<>> THEN <<>> ELSE <<copied.slot>>
                  /\ IF copied.kind # "return"
                     THEN Raises(copied.kind)
                     ELSE IF reply.session_response[1].response_stream.items = <<>>
                     THEN Raises("IndexError")
                     ELSE /\ api_pc' = "returned"
                          /\ api_outcome' =
                                ApiOutcome("return",
                                           TextOf(reply.session_response[1].response_stream.items))
    /\ UNCHANGED <<uploadVars, replayVars, optionsVars, pollVars, authVars, raceVars, serverVars>>

\* a generator object is made; none of its code has run
Creates(args) ==
    /\ api_pc = "idle"
    /\ api_pc' = "created"
    /\ api_args' = args
    /\ request_dict' = args.request_dict
    /\ response_payload' = IF HasSlot(args.http_options) THEN <<NoHeaders>> ELSE <<>>
    /\ UNCHANGED <<vertexai, built, transport, session_response, pending,
                   received, api_outcome>>
    /\ UNCHANGED <<uploadVars, replayVars, optionsVars, pollVars, authVars, raceVars, serverVars>>

\* lines 330-336: request_streamed(...)
ApiRequestStreamed(args) ==
    /\ api_op' = "request_streamed"
    /\ Creates(args)

\* lines 363-369: async_request_streamed(...)
ApiAsyncRequestStreamed(args) ==
    /\ api_op' = "async_request_streamed"
    /\ Creates(args)

\* lines 120-124: HttpResponse(headers, response_stream).segments() on a
\* list of raw segments
ApiSegments(response_stream) ==
    /\ api_pc = "idle"
    /\ api_op' = "segments"
    /\ api_pc' = "streaming"
    /\ session_response' = <<HttpResponse(LiveResponseHeaders, TRUE, response_stream)>>
    /\ pending' = response_stream
    /\ UNCHANGED <<vertexai, api_args, request_dict, built, transport, received,
                   response_payload, api_outcome>>
    /\ UNCHANGED <<uploadVars, replayVars, optionsVars, pollVars, authVars, raceVars, serverVars>>

\* lines 344-345 and 376-379: the loop over segments() resumed on r with
\* chunks left, up to the next yield or the end of the generator
Loops(r, chunks) ==
    LET next == NextSegment(r.response_stream.buffered, chunks)
    IN /\ pending' = next.rest
       /\ CASE next.kind = "yield" ->
                 /\ received' = Append(received, next.value)
                 /\ api_pc' = "streaming"
                 /\ UNCHANGED <<api_outcome, response_payload>>
            [] next.kind = "stop" /\ api_op = "async_request_streamed"
                                  /\ response_payload # <<>> ->
                 \* lines 378-379
                 LET copied == CopyToDict(r, response_payload[1])
                 IN /\ response_payload' = <<copied.slot>>
                    /\ UNCHANGED received
                    /\ IF copied.kind # "return"
                       THEN Raises(copied.kind)
                       ELSE /\ api_pc' = "returned"
                            /\ api_outcome' = ApiOutcome("return", EmptyStr)
            [] next.kind = "stop" /\ ~(api_op = "async_request_streamed"
                                       /\ response_payload # <<>>) ->
                 /\ api_pc' = "returned"
                 /\ api_outcome' = ApiOutcome("return", EmptyStr)
                 /\ UNCHANGED <<received, response_payload>>
            [] OTHER ->
                 /\ Raises(next.kind)
                 /\ UNCHANGED <<received, response_payload>>

\* the consumer asks for the first segment: the generator runs from its
\* start (lines 337-345, 370-377) with live the answer of the backend
StartStream(live) ==
    /\ api_pc = "created"
    /\ Sends(api_args, TRUE, live)
    /\ UNCHANGED <<vertexai, api_op, api_args>>
    /\ LET reply == DoSend(vertexai, built'[1], TRUE, live)
       IN IF reply.kind # "return"
          THEN /\ Raises(reply.kind)
               /\ UNCHANGED <<pending, received, response_payload>>
          ELSE IF api_op = "request_streamed" /\ response_payload # <<>>
               THEN \* lines 342-343
                    LET copied == CopyToDict(reply.session_response[1],
                                             response_payload[1])
                    IN IF copied.kind # "return"
                       THEN /\ Raises(copied.kind)
                            /\ response_payload' = <<copied.slot>>
                            /\ pending' = live.body
                            /\ UNCHANGED received
                       ELSE Loops(reply.session_response[1], live.body)
               ELSE Loops(reply.session_response[1], live.body)
    /\ UNCHANGED <<uploadVars, replayVars, optionsVars, pollVars, authVars, raceVars, serverVars>>

\* the consumer asks for the next segment
ResumeStream ==
    /\ api_pc = "streaming"
    /\ Loops(session_response[1], pending)
    /\ UNCHANGED <<vertexai, api_op, api_args, request_dict, built, transport,
                   session_response>>
    /\ UNCHANGED <<uploadVars, replayVars, optionsVars, pollVars, authVars, raceVars, serverVars>>

ApiNext ==
    \/ \E args \in ApiArgs, live \in LiveAnswers(FALSE) : ApiRequest(args, live)
    \/ \E args \in ApiArgs : ApiRequestStreamed(args)
    \/ \E args \in ApiArgs : ApiAsyncRequestStreamed(args)
    \/ \E response_stream \in BufferedLists : ApiSegments(response_stream)
    \/ \E live \in StreamAnswers : StartStream(live)
    \/ ResumeStream

SpecApi == ApiInit /\ [][ApiNext]_vars

(***************************************************************************)
(* The credentials of ApiClient._request and _async_request (lines         *)
(* 237-308) over the sends of one client, one after the other.             *)
(***************************************************************************)
\* sends of one client
MaxSends == 3

\* what google.auth.default does: it returns credentials or raises
AdcAnswers == {"credentials", "DefaultCredentialsError"}
\* what the backend answers to a send: a success or a failure status
SendAnswers == {200, 400}

\* lines 243 and 294: not self._credentials
NeedsFetchAlways(creds) == TRUE
NeedsFetch(creds) == creds = <<>>

\* lines 243-246 and 294-297: self._credentials after the check, with what
\* google.auth.default answers when it is called
Fetched(creds, adc) ==
    IF ~NeedsFetch(creds) THEN [kind |-> "kept", credentials |-> creds]
    ELSE IF adc = "credentials"
         THEN [kind |-> "fetched", credentials |-> <<"default">>]
         ELSE [kind |-> "DefaultCredentialsError", credentials |-> creds]

\* lines 247-263 and 265-288: the request goes out, through an
\* AuthorizedSession over the credentials or through a requests.Session
Transmits(op, creds, stream, code) ==
    /\ wire' = Append(wire,
          [op |-> op, stream |-> stream,
           session |-> IF vertexai THEN "AuthorizedSession" ELSE "Session",
           credentials |-> IF vertexai THEN creds ELSE <<>>])
    /\ auth_outcome' = IF RaiseForResponse(code) THEN "APIError" ELSE "return"

\* lines 143-200: a client of either backend, with credentials or without
AuthInit ==
    /\ UploadIdle
    /\ ReplayIdle
    /\ OptionsIdle
    /\ PollIdle
    /\ RaceIdle
    /\ ServerIdle
    /\ vertexai \in BOOLEAN
    /\ api_op = "none"
    /\ api_pc = "idle"
    /\ api_args = <<>>
    /\ request_dict = <<>>
    /\ built = <<>>
    /\ transport = <<>>
    /\ session_response = <<>>
    /\ pending = <<>>
    /\ received = <<>>
    /\ response_payload = <<>>
    /\ api_outcome = [kind |-> "none", value |-> EmptyStr]
    /\ credentials \in {<<>>, <<"supplied">>}
    /\ fetches = 0
    /\ wire = <<>>
    /\ auth_outcome = "none"

\* lines 237-263: self._request(http_request, stream)
AuthRequest(stream, adc, code) ==
    /\ Len(wire) < MaxSends
    /\ IF vertexai
       THEN LET checked == Fetched(credentials, adc)
            IN /\ credentials' = checked.credentials
               /\ fetches' = IF checked.kind = "fetched" THEN fetches + 1 ELSE fetches
               /\ IF checked.kind = "DefaultCredentialsError"
                  THEN /\ auth_outcome' = "DefaultCredentialsError"
                       /\ UNCHANGED wire
                  ELSE Transmits("_request", checked.credentials, stream, code)
       ELSE /\ Transmits("_request", credentials, stream, code)
            /\ UNCHANGED <<credentials, fetches>>
    /\ UNCHANGED <<uploadVars, replayVars, optionsVars, apiVars, pollVars, raceVars, serverVars>>

\* lines 290-308: await self._async_request(http_request, stream): the
\* check in the event loop, then _request on a worker thread with its own
\* check
AuthAsyncRequest(stream, adc, code) ==
    /\ Len(wire) < MaxSends
    /\ IF vertexai
       THEN LET checked == Fetched(credentials, adc)
                again == Fetched(checked.credentials, adc)
            IN IF checked.kind = "DefaultCredentialsError"
               THEN /\ auth_outcome' = "DefaultCredentialsError"
                    /\ UNCHANGED <<credentials, fetches, wire>>
               ELSE /\ credentials' = again.credentials
                    /\ fetches' = fetches
                                    + (IF checked.kind = "fetched" THEN 1 ELSE 0)
                                    + (IF again.kind = "fetched" THEN 1 ELSE 0)
                    /\ Transmits("_async_request", again.credentials, stream, code)
       ELSE /\ Transmits("_async_request", credentials, stream, code)
            /\ UNCHANGED <<credentials, fetches>>
    /\ UNCHANGED <<uploadVars, replayVars, optionsVars, apiVars, pollVars, raceVars, serverVars>>

AuthNext ==
    \/ \E stream \in BOOLEAN, adc \in AdcAnswers, code \in SendAnswers :
          AuthRequest(stream, adc, code)
    \/ \E stream \in BOOLEAN, adc \in AdcAnswers, code \in SendAnswers :
          AuthAsyncRequest(stream, adc, code)

SpecAuth == AuthInit /\ [][AuthNext]_vars

(***************************************************************************)
(* t_resolve_operation (_transformers.py lines 401-432).  Seconds are      *)
(* fractions num/den, exact for the floats the loop computes.              *)
(***************************************************************************)
\* lines 401-404
LRO_POLLING_INITIAL_DELAY_SECONDS == 1
LRO_POLLING_MAXIMUM_DELAY_SECONDS == 20
LRO_POLLING_TIMEOUT_SECONDS == 900
LRO_POLLING_MULTIPLIER == [num |-> 3, den |-> 2]

\* number of GET polls of one call
MaxPolls == 10

\* An operation as the backend reports it: the value under 'done' ("absent"
\* when there is none), and the values under 'response' and 'error' (<<>>
\* for none).  named: 'name' is there and holds '/operations/'.
Operation(named, done, result, error) ==
    [named |-> named, done |-> done, response |-> result, error |-> error]
ObjX == Obj({<<"x", 1>>})
NotDoneReports ==
    {Operation(TRUE, "false", <<>>, <<>>), Operation(TRUE, "absent", <<>>, <<>>)}
DoneReports ==
    {Operation(TRUE, "true", <<ObjX>>, <<>>),
     Operation(TRUE, "true", <<>>, <<>>),
     Operation(TRUE, "true", <<>>, <<Obj({<<"error", 400>>})>>)}
\* what a GET of the operation returns
Reports == NotDoneReports \cup DoneReports
\* the argument struct: an operation, or a value that is none
Structs == Reports \cup {Operation(FALSE, "absent", <<ObjX>>, <<>>)}

\* lines 422-425: the delay after a poll
NextDelayUncapped(delay) ==
    [num |-> delay.num * LRO_POLLING_MULTIPLIER.num,
     den |-> delay.den * LRO_POLLING_MULTIPLIER.den]
NextDelay(delay) ==
    IF delay.num * LRO_POLLING_MULTIPLIER.num
          > LRO_POLLING_MAXIMUM_DELAY_SECONDS * delay.den * LRO_POLLING_MULTIPLIER.den
    THEN [num |-> LRO_POLLING_MAXIMUM_DELAY_SECONDS, den |-> 1]
    ELSE [num |-> delay.num * LRO_POLLING_MULTIPLIER.num,
          den |-> delay.den * LRO_POLLING_MULTIPLIER.den]

PollOutcome(kind, value) == [kind |-> kind, value |-> value]

\* lines 412-430: the loop condition is evaluated on op with total seconds
\* waited: the loop is entered again, or the call returns or raises
Continues(op, total) ==
    IF op.done # "true"
    THEN IF total > LRO_POLLING_TIMEOUT_SECONDS
         THEN /\ poll_pc' = "raised"
              /\ poll_outcome' = PollOutcome("RuntimeError", <<>>)
         ELSE /\ poll_pc' = "loop"
              /\ UNCHANGED poll_outcome
    ELSE IF op.error # <<>>
         THEN /\ poll_pc' = "raised"
              /\ poll_outcome' = PollOutcome("RuntimeError", op.error)
         ELSE /\ poll_pc' = "returned"
              /\ poll_outcome' = PollOutcome("return", op.response)

\* the call t_resolve_operation(api_client, struct) for every struct
PollInit ==
    /\ UploadIdle
    /\ ReplayIdle
    /\ OptionsIdle
    /\ ApiIdle
    /\ AuthIdle
    /\ RaceIdle
    /\ ServerIdle
    /\ operation \in Structs
    /\ total_seconds = 0
    /\ delay_seconds = [num |-> 0, den |-> 1]
    /\ polls = <<>>
    /\ sleeps = <<>>
    /\ poll_pc = "called"
    /\ poll_outcome = PollOutcome("none", <<>>)

\* lines 408-413 and 431-432: the call up to its first GET
Resolve ==
    /\ poll_pc = "called"
    /\ IF ~operation.named
       THEN /\ poll_pc' = "returned"
            /\ poll_outcome' = PollOutcome("struct", operation.response)
            /\ UNCHANGED <<total_seconds, delay_seconds>>
       ELSE /\ total_seconds' = 0
            /\ delay_seconds' = [num |-> LRO_POLLING_INITIAL_DELAY_SECONDS, den |-> 1]
            /\ Continues(operation, 0)
    /\ UNCHANGED <<operation, polls, sleeps>>
    /\ UNCHANGED <<uploadVars, replayVars, optionsVars, apiVars, authVars, raceVars, serverVars>>

\* lines 416-425 and then 412-430: one GET answered by report, the sleep
\* after it, and the loop condition on what the GET returned
Polled(report) ==
    /\ poll_pc = "loop"
    /\ operation' = report
    /\ polls' = Append(polls, report)
    /\ sleeps' = Append(sleeps, delay_seconds)
    /\ total_seconds' = total_seconds + total_seconds
    /\ delay_seconds' = NextDelay(delay_seconds)
    /\ Continues(report, total_seconds + total_seconds)
    /\ UNCHANGED <<uploadVars, replayVars, optionsVars, apiVars, authVars, raceVars, serverVars>>

Poll(report) ==
    /\ Len(polls) < MaxPolls
    /\ Polled(report)

\* lines 416-418: the GET fails, api_client.request raises
PollFails ==
    /\ poll_pc = "loop"
    /\ Len(polls) < MaxPolls
    /\ poll_pc' = "raised"
    /\ poll_outcome' = PollOutcome("APIError", <<>>)
    /\ UNCHANGED <<operation, total_seconds, delay_seconds, polls, sleeps>>
    /\ UNCHANGED <<uploadVars, replayVars, optionsVars, apiVars, authVars, raceVars, serverVars>>

PollNext ==
    \/ Resolve
    \/ \E report \in Reports : Poll(report)
    \/ PollFails

SpecPoll == PollInit /\ [][PollNext]_vars

\* number of GET polls of one call on an operation whose reports stay the
\* same until it is done: enough for the delays to add up to more than
\* LRO_POLLING_TIMEOUT_SECONDS
MaxWaitPolls == 55

\* the call t_resolve_operation(api_client, struct) on an operation that is
\* not done
PollWaitInit ==
    /\ UploadIdle
    /\ ReplayIdle
    /\ OptionsIdle
    /\ ApiIdle
    /\ AuthIdle
    /\ RaceIdle
    /\ ServerIdle
    /\ operation \in NotDoneReports
    /\ total_seconds = 0
    /\ delay_seconds = [num |-> 0, den |-> 1]
    /\ polls = <<>>
    /\ sleeps = <<>>
    /\ poll_pc = "called"
    /\ poll_outcome = PollOutcome("none", <<>>)

\* one GET answered with the report of the GET before: still not done
StillRunning ==
    /\ Len(polls) < MaxWaitPolls
    /\ Polled(operation)

\* one GET answered done=true
Finishes(report) ==
    /\ Len(polls) < MaxWaitPolls
    /\ Polled(report)

PollWaitNext ==
    \/ Resolve
    \/ StillRunning
    \/ \E report \in DoneReports : Finishes(report)
    \/ PollFails

SpecPollWait == PollWaitInit /\ [][PollWaitNext]_vars

\* lines 394-396: the state on entry of the loop, for every file content
\* and upload_size
UploadInit ==
    /\ ReplayIdle
    /\ OptionsIdle
    /\ ApiIdle
    /\ PollIdle
    /\ AuthIdle
    /\ RaceIdle
    /\ ServerIdle
    /\ file \in Files
    /\ upload_size \in UploadSizes
    /\ keep_history = TRUE
    /\ file_pos = 0
    /\ offset = 0
    /\ upload_pc = "loop"
    /\ sent = <<>>
    /\ responses = <<>>
    /\ upload_outcome = NoOutcome

SpecUpload == UploadInit /\ [][UploadNext]_vars

\* the same call with only the last request and response kept, so that an
\* iteration that changes nothing leads back to the state it started from
UploadLiveInit ==
    /\ ReplayIdle
    /\ OptionsIdle
    /\ ApiIdle
    /\ PollIdle
    /\ AuthIdle
    /\ RaceIdle
    /\ ServerIdle
    /\ file \in Files
    /\ upload_size \in UploadSizes
    /\ keep_history = FALSE
    /\ file_pos = 0
    /\ offset = 0
    /\ upload_pc = "loop"
    /\ sent = <<>>
    /\ responses = <<>>
    /\ upload_outcome = NoOutcome

\* the thread that runs upload_file keeps running and every request it
\* sends is answered: a step that is possible is eventually taken
SpecUploadLive ==
    UploadLiveInit /\ [][UploadNext]_vars /\ WF_vars(UploadNext)

(***************************************************************************)
(* app.py: the Flask handlers of /process-audio and /get-audio-response.   *)
(* app.run (line 160) serves each request on a thread of its own, so the   *)
(* handlers interleave between the statements that read or write the      *)
(* module-level latest_audio_response.                                     *)
(***************************************************************************)
MaxAccepted == 4

\* the bodies a POST carries: none, or some bytes of audio
Bodies == {<<>>, <<7>>}

\* what send_to_gemini_live (lines 103-152) gives: it raises, it returns no
\* bytes, or it returns audio; the n-th audio stored is the bytes <<n>>
GeminiReplies == {"raises", "nothing", "audio"}
GeminiData(reply) == IF reply = "audio" THEN <<stores + 1>> ELSE <<>>

\* line 82: latest_audio_response and len(latest_audio_response) > 0
HasAudio(slot) == slot # <<>> /\ Len(slot[1]) > 0

Answered(route, code, body) ==
    answered' = Append(answered, [route |-> route, code |-> code, body |-> body])

Moves(h, pc) == handlers' = [handlers EXCEPT ![h].pc = pc]

Returns(h) == handlers' = [handlers EXCEPT ![h] = IdleHandler]

\* lines 38-59: the client exists (lines 11-16: the key is a literal); an
\* empty body is answered 400, any other is passed to send_to_gemini_live
ProcessAudio(h, body) ==
    /\ handlers[h].pc = "idle"
    /\ accepted < MaxAccepted
    /\ accepted' = accepted + 1
    /\ IF Len(body) = 0
       THEN /\ Answered("process-audio", 400, <<>>)
            /\ Returns(h)
       ELSE /\ handlers' = [handlers EXCEPT ![h].pc = "gemini",
                                            ![h].audio_data = body]
            /\ UNCHANGED answered
    /\ UNCHANGED <<latest_audio_response, stores>>
    /\ UNCHANGED <<uploadVars, replayVars, optionsVars, apiVars, pollVars,
                   authVars, raceVars>>

\* lines 59-75: asyncio.run returns or raises; audio is stored at line 62
\* and answered 200, no bytes and an exception are answered 500
GeminiAnswers(h, reply) ==
    /\ handlers[h].pc = "gemini"
    /\ IF reply # "raises" /\ Len(GeminiData(reply)) > 0
       THEN /\ latest_audio_response' = <<GeminiData(reply)>>
            /\ stores' = stores + 1
            /\ Answered("process-audio", 200, GeminiData(reply))
       ELSE /\ Answered("process-audio", 500, <<>>)
            /\ UNCHANGED <<latest_audio_response, stores>>
    /\ Returns(h)
    /\ UNCHANGED accepted
    /\ UNCHANGED <<uploadVars, replayVars, optionsVars, apiVars, pollVars,
                   authVars, raceVars>>

\* lines 77-82 and 96-97: the test of the slot; 404 when it holds no audio
GetAudioResponse(h) ==
    /\ handlers[h].pc = "idle"
    /\ accepted < MaxAccepted
    /\ accepted' = accepted + 1
    /\ IF HasAudio(latest_audio_response)
       THEN /\ Moves(h, "log")
            /\ UNCHANGED answered
       ELSE /\ Answered("get-audio-response", 404, <<>>)
            /\ Returns(h)
    /\ UNCHANGED <<latest_audio_response, stores>>
    /\ UNCHANGED <<uploadVars, replayVars, optionsVars, apiVars, pollVars,
                   authVars, raceVars>>

\* line 83: len(latest_audio_response) for the log line; len(None) raises
\* TypeError, which lines 99-101 answer with 500
Logs(h) ==
    /\ handlers[h].pc = "log"
    /\ IF latest_audio_response = <<>>
       THEN /\ Answered("get-audio-response", 500, <<>>)
            /\ Returns(h)
       ELSE /\ Moves(h, "wrap")
            /\ UNCHANGED answered
    /\ UNCHANGED <<latest_audio_response, accepted, stores>>
    /\ UNCHANGED <<uploadVars, replayVars, optionsVars, apiVars, pollVars,
                   authVars, raceVars>>

\* lines 85-86: io.BytesIO(latest_audio_response); BytesIO(None) is an empty
\* stream
Wraps(h) ==
    /\ handlers[h].pc = "wrap"
    /\ handlers' = [handlers EXCEPT
          ![h].pc = "clear",
          ![h].audio_stream = IF latest_audio_response = <<>> THEN <<>>
                              ELSE latest_audio_response[1]]
    /\ UNCHANGED <<latest_audio_response, accepted, stores, answered>>
    /\ UNCHANGED <<uploadVars, replayVars, optionsVars, apiVars, pollVars,
                   authVars, raceVars>>

\* line 89: latest_audio_response = None
Clears(h) ==
    /\ handlers[h].pc = "clear"
    /\ latest_audio_response' = <<>>
    /\ Moves(h, "send")
    /\ UNCHANGED <<accepted, stores, answered>>
    /\ UNCHANGED <<uploadVars, replayVars, optionsVars, apiVars, pollVars,
                   authVars, raceVars>>

\* lines 91-95: send_file(audio_stream), answered 200
SendsFile(h) ==
    /\ handlers[h].pc = "send"
    /\ Answered("get-audio-response", 200, handlers[h].audio_stream)
    /\ Returns(h)
    /\ UNCHANGED <<latest_audio_response, accepted, stores>>
    /\ UNCHANGED <<uploadVars, replayVars, optionsVars, apiVars, pollVars,
                   authVars, raceVars>>

ServerInit ==
    /\ UploadIdle
    /\ ReplayIdle
    /\ OptionsIdle
    /\ ApiIdle
    /\ PollIdle
    /\ AuthIdle
    /\ RaceIdle
    /\ ServerIdle

ServerNext ==
    \/ \E h \in Handlers, body \in Bodies : ProcessAudio(h, body)
    \/ \E h \in Handlers, reply \in GeminiReplies : GeminiAnswers(h, reply)
    \/ \E h \in Handlers : GetAudioResponse(h)
    \/ \E h \in Handlers : Logs(h)
    \/ \E h \in Handlers : Wraps(h)
    \/ \E h \in Handlers : Clears(h)
    \/ \E h \in Handlers : SendsFile(h)

SpecServer == ServerInit /\ [][ServerNext]_vars

(***************************************************************************)
(* Claims about ApiClient.upload_file (checked under SpecUpload).          *)
(***************************************************************************)
Finalizes(req) == req.command = "upload, finalize"

\* the total length of the first n payloads sent
SentLen(n) == Len(ConcatData(SubSeq(sent, 1, n)))

LastResponse == responses[Len(responses)]

\* The mock server of the claim: it answers "active" to every chunk but
\* the one that reaches the end of the file and "final" to that one, and
\* never fails or omits the status.
ServerEchoes ==
    /\ upload_outcome.kind \notin {"APIError", "KeyError"}
    /\ \A i \in 1..Len(responses) :
          responses[i].status =
             IF SentLen(i) >= Len(file) THEN "final" ELSE "active"

\* C1: with upload_size equal to the file's length and a server answering
\* active to every chunk but the last and final to the last, the requests
\* carry consecutive chunks of at most ChunkSize bytes, each with
\* X-Goog-Upload-Offset equal to the total length sent before it and
\* Content-Length equal to its own length; the call does not raise, and
\* when it has returned the payloads concatenated equal the file.
C1_UploadReconstructsFile ==
    (upload_size = Len(file) /\ ServerEchoes) =>
        /\ \A i \in 1..Len(sent) :
              /\ Len(sent[i].data) <= ChunkSize
              /\ sent[i].offset = SentLen(i - 1)
              /\ sent[i].content_length = Len(sent[i].data)
        /\ ConcatData(sent) = SubSeq(file, 1, SentLen(Len(sent)))
        /\ upload_pc # "raised"
        /\ upload_pc = "returned" => ConcatData(sent) = file

\* C1 witness: a file of three chunks holding both byte values was
\* uploaded to the echoing server and the call returned
C1_Witness ==
    /\ upload_pc = "returned"
    /\ upload_size = Len(file)
    /\ ServerEchoes
    /\ Len(sent) >= 3
    /\ \E i, j \in 1..Len(file) : file[i] # file[j]

\* C2: a request carries "upload, finalize" exactly when its offset plus
\* its chunk size reaches upload_size; no request follows one that
\* carried finalize, whatever the server answers; and with upload_size
\* equal to the file's length the request carrying finalize is the one
\* whose chunk reaches the end of the file.
C2_FinalizeOnlyOnLastChunk ==
    /\ \A i \in 1..Len(sent) :
          Finalizes(sent[i]) <=>
             sent[i].offset + sent[i].content_length >= upload_size
    /\ \A i \in 1..(Len(sent) - 1) : ~Finalizes(sent[i])
    /\ upload_size = Len(file) =>
          \A i \in 1..Len(sent) :
             Finalizes(sent[i]) <=> SentLen(i) = Len(file)

\* C2 witness: a second chunk carried finalize after a first that did not
C2_Witness ==
    /\ Len(sent) >= 2
    /\ upload_size = Len(file)
    /\ ~Finalizes(sent[1])
    /\ Finalizes(sent[Len(sent)])
    /\ upload_pc = "returned"

\* C3: upload_file returns only when the last response's status is
\* "final"; when the loop ends with a status that is neither active nor
\* final it raises a ValueError carrying that last response.
C3_ReturnsOnlyOnFinal ==
    /\ upload_pc = "returned" =>
          /\ Len(responses) > 0
          /\ LastResponse.status = "final"
          /\ upload_outcome.kind = "return"
          /\ upload_outcome.msg = LastResponse.body
    /\ (Len(responses) > 0 /\ LastResponse.status \notin {"active", "final"}) =>
          /\ upload_pc = "raised"
          /\ upload_outcome.kind = "ValueError"
          /\ upload_outcome.response = LastResponse

\* C3 witness: the second chunk was answered with an interrupted status
C3_Witness ==
    /\ Len(responses) >= 2
    /\ LastResponse.status = "cancelled"
    /\ upload_pc = "raised"

\* C4: when a chunk after which offset >= upload_size is answered
\* "active", the call raises a ValueError at once: no request follows.
C4_ActiveAfterAllContentRaises ==
    \A i \in 1..Len(responses) :
       ( /\ responses[i].status = "active"
         /\ sent[i].offset + sent[i].content_length >= upload_size ) =>
            /\ upload_pc = "raised"
            /\ upload_outcome.kind = "ValueError"
            /\ upload_outcome.response = responses[i]
            /\ Len(sent) = i
            /\ offset >= upload_size

\* C4 witness: all content went out in two chunks and the server still
\* answered active
C4_Witness ==
    /\ Len(responses) >= 2
    /\ LastResponse.status = "active"
    /\ offset >= upload_size
    /\ upload_pc = "raised"


(***************************************************************************)
(* The replay harness: claims                                              *)
(***************************************************************************)
\* the interactions of the loaded session, none when replay_session is None
Interactions ==
    IF replay_session = <<>> THEN <<>> ELSE replay_session[1].interactions

\* the interaction cursor the last call started from: a call that loads the
\* session starts from 0
CursorOnEntry == IF last.entry.loaded THEN last.entry.idx ELSE 0
SdkCursorOnEntry == IF last.entry.loaded THEN last.entry.sdk ELSE 0

\* the last call was a _request served from the loaded session with an
\* unconsumed interaction at the cursor
ServedFromReplay ==
    /\ ~ShouldCallApi(Client)
    /\ last.op = "_request"
    /\ replay_session # <<>>
    /\ CursorOnEntry < Len(Interactions)

\* the recorded interaction the last call was compared with
Compared == Interactions[CursorOnEntry + 1]

\* the four compared fields, in the order the specification gives
FieldOrder == <<"url", "headers", "method", "body">>

\* the value of a field of the redacted request, and the recorded one
ActualValue(field, q) ==
    CASE field = "url" -> q.url
      [] field = "headers" -> q.headers
      [] field = "method" -> q.method
      [] field = "body" -> ActualRequestBody(q.data)
ExpectedValue(field, interaction) ==
    CASE field = "url" -> interaction.request.url
      [] field = "headers" -> interaction.request.headers
      [] field = "method" -> interaction.request.method
      [] field = "body" -> interaction.request.body_segments

\* the positions in FieldOrder of the fields in which the last request,
\* redacted, differs from the interaction it was compared with
Differing ==
    {i \in 1..Len(FieldOrder) :
        ActualValue(FieldOrder[i], RedactHttpRequest(last.request))
            # ExpectedValue(FieldOrder[i], Compared)}
FirstDiffering ==
    FieldOrder[CHOOSE i \in Differing : \A j \in Differing : i <= j]

\* C5: in replay mode no call reaches the live backend, and with no replay
\* file for the (well-formed) replay id the first call of request,
\* upload_file or verify_response fails with a ValueError that names the
\* replay id.
C5_ReplayNeverLiveElseValueError ==
    mode = "replay" =>
        /\ last.live = 0
        /\ ( /\ ncalls = 1
             /\ PathValid(replay_id)
             /\ ~ReplayFileExists(Client)
             /\ last.op \in {"_request", "upload_file", "_verify_response"} )
           => /\ last.kind = "ValueError"
              /\ \E i \in 1..Len(last.msg) : last.msg[i] = replay_id

\* C6: in record mode (well-formed replay id) a call of _request makes one
\* live call and appends one interaction; a live APIError is recorded with
\* its status and raised to the caller; a streaming call returns to the
\* caller the decoded segments of the live stream, in order.
C6_RecordOneLiveOneInteraction ==
    (mode = "record" /\ PathValid(replay_id) /\ last.op = "_request") =>
        /\ last.live = 1
        /\ Len(Interactions) = last.entry.n + 1
        /\ last.answer.kind = "APIError" =>
              /\ last.kind = "APIError"
              /\ last.code = last.answer.code
              /\ Interactions[Len(Interactions)].response.status_code = last.answer.code
        /\ (last.answer.kind = "ok" /\ last.stream) =>
              /\ last.kind = "return"
              /\ SegmentsOfList(last.response_stream) = SegmentsOfLines(last.answer.body)

\* C7: round trip.  On a replay-mode client over the file of a recording,
\* as long as every call so far re-issued the recorded requests in order,
\* the call passes request matching (no AssertionError).
C7_RoundTripMatches ==
    ( /\ mode = "replay"
      /\ last.op = "_request"
      /\ ncalls = CursorOnEntry + 1
      /\ CursorOnEntry < Len(recorded)
      /\ last.request = recorded[CursorOnEntry + 1] )
    => last.kind # "AssertionError"

C9_MismatchCarriesFieldAndValues ==
    (ServedFromReplay /\ last.kind = "AssertionError") =>
        /\ Len(last.msg) = 3
        /\ last.msg[2] = ActualValue(last.at, RedactHttpRequest(last.request))
        /\ last.msg[3] = ExpectedValue(last.at, Compared)

\* C10: within a loaded replay session the interaction cursor never
\* decreases; a call of _request that matches the interaction at the cursor
\* advances it by one and sets the SDK-response cursor to 0, also when the
\* recorded status is then raised as an error; a call whose match fails
\* leaves both cursors as they were.
C10_CursorAdvancesOnMatchOnly ==
    (~ShouldCallApi(Client) /\ replay_session # <<>>) =>
        /\ replay_index >= CursorOnEntry
        /\ ServedFromReplay =>
              IF Differing = {}
              THEN replay_index = CursorOnEntry + 1 /\ sdk_response_index = 0
              ELSE /\ replay_index = CursorOnEntry
                   /\ sdk_response_index = SdkCursorOnEntry

\* a match of the second interaction, recorded with an error status, after
\* the SDK-response cursor had moved
C10_Witness ==
    /\ ServedFromReplay
    /\ last.kind = "APIError"
    /\ last.entry.idx = 1
    /\ last.entry.sdk = 1
    /\ replay_index = 2
    /\ sdk_response_index = 0

\* the client is in a mode in which close() persists: record, or auto with
\* no replay file yet
PersistingMode ==
    \/ mode = "record"
    \/ mode = "auto" /\ disk[GenerateFilePathFromReplayId(ReplaysDirectory, replay_id)] = <<>>

\* the step is a call of the operation op
Called(op) == ncalls' = ncalls + 1 /\ last'.op = op

\* C11: close() changes no field and no file unless the client is in a
\* persisting mode with a session; then it writes every interaction of the
\* session, in order, to the path of the replay id and clears the session
\* (so that the next close() finds no session and writes nothing).
C11_CloseWritesSessionElseNothing ==
    [][ (Called("close") /\ PathValid(replay_id)) =>
          IF ~PersistingMode \/ replay_session = <<>>
          THEN UNCHANGED <<mode, replay_id, replay_session, replay_index,
                           sdk_response_index, disk>>
          ELSE LET path == ReplaysDirectory \o replay_id \o <<".json">>
                   old == replay_session[1].interactions
                   new == disk'[path][1].interactions
               IN /\ disk'[path] # <<>>
                  /\ \A p \in DOMAIN disk : p # path => disk'[p] = disk[p]
                  /\ disk'[path][1].replay_id = replay_session[1].replay_id
                  /\ Len(new) = Len(old)
                  /\ \A i \in 1..Len(old) :
                        /\ new[i].response = old[i].response
                        /\ new[i].request.url = old[i].request.url
                        /\ new[i].request.method = old[i].request.method
                        /\ new[i].request.headers = old[i].request.headers
                  /\ replay_session' = <<>>
                  /\ UNCHANGED <<mode, replay_id, replay_index, sdk_response_index>>
      ]_vars

\* a close() that wrote a session of two interactions
C11_Witness ==
    /\ last.op = "close"
    /\ last.kind = "return"
    /\ last.entry.loaded
    /\ last.entry.n = 2
    /\ replay_session = <<>>
    /\ disk[ReplaysDirectory \o replay_id \o <<".json">>] # <<>>
    /\ Len(disk[ReplaysDirectory \o replay_id \o <<".json">>][1].interactions) = 2

\* s is a prefix of t
IsPrefix(s, t) == Len(s) <= Len(t) /\ \A i \in 1..Len(s) : t[i] = s[i]

\* every interaction of old is still in new at its place, with the request
\* and the response recorded for it (its SDK-response list may have grown)
KeepsInteractions(old, new) ==
    /\ Len(old) <= Len(new)
    /\ \A i \in 1..Len(old) :
          /\ new[i].request = old[i].request
          /\ new[i].response.status_code = old[i].response.status_code
          /\ new[i].response.headers = old[i].response.headers
          /\ new[i].response.body_segments = old[i].response.body_segments
          /\ IsPrefix(old[i].response.sdk_response_segments,
                      new[i].response.sdk_response_segments)

\* C12: while a session is open for recording, every operation other than
\* close() keeps the session and every interaction already recorded in it,
\* in order; close() persists it and clears it, so it is persisted once.
C12_RecordingIsAppendOnly ==
    [][ ( /\ ncalls' = ncalls + 1
          /\ PathValid(replay_id)
          /\ PersistingMode
          /\ replay_session # <<>> ) =>
          IF last'.op = "close"
          THEN replay_session' = <<>>
          ELSE /\ replay_session' # <<>>
               /\ KeepsInteractions(replay_session[1].interactions,
                                    replay_session'[1].interactions)
      ]_vars

\* the entry points that use the session
EntryPoints == {"_request", "upload_file", "_verify_response"}

\* C13: a client has no session after construction; a call of any entry
\* point on a client without a session (mode record, replay over an
\* existing file, or auto) leaves it with a session, and the session stays
\* the one of its replay id until close() or initialize_replay_session.
C13_SessionCreatedOnFirstUse ==
    /\ replay_session = <<>>
    /\ [][ ( /\ ncalls' = ncalls + 1
             /\ PathValid(replay_id)
             /\ mode # "api"
             /\ last'.op \in EntryPoints ) =>
             IF replay_session = <<>>
             THEN (mode = "replay" =>
                      disk[ReplaysDirectory \o replay_id \o <<".json">>] # <<>>)
                  => replay_session' # <<>>
             ELSE /\ replay_session' # <<>>
                  /\ replay_session'[1].replay_id = replay_session[1].replay_id
         ]_vars

\* C14: in auto mode (well-formed replay id) a call of request or
\* upload_file reaches the backend exactly when the replay file does not
\* exist; when it exists no call reaches the backend, a request that
\* returns gives the recorded body segments of the interaction at the
\* cursor, and no call, close() included, changes the file.
C14_AutoLiveIffNoFixture ==
    [][ (ncalls' = ncalls + 1 /\ mode = "auto" /\ PathValid(replay_id)) =>
          LET path == ReplaysDirectory \o replay_id \o <<".json">>
              exists == disk[path] # <<>>
          IN /\ last'.op \in {"_request", "upload_file"} =>
                   (last'.live = 1 <=> ~exists)
             /\ exists =>
                   /\ last'.live = 0
                   /\ disk' = disk
                   /\ (last'.op = "_request" /\ last'.kind = "return") =>
                         LET segs == disk[path][1].interactions[replay_index']
                                        .response.body_segments
                         IN /\ Len(last'.response_stream) = Len(segs)
                            /\ \A i \in 1..Len(segs) :
                                  JsonLoads(last'.response_stream[i]) = segs[i]
      ]_vars

\* an auto-mode client that recorded one request, closed, and was then
\* served the same request from the file it wrote
C14_Witness ==
    /\ mode = "auto"
    /\ Len(recorded) = 1
    /\ last.op = "_request"
    /\ last.kind = "return"
    /\ last.live = 0
    /\ replay_index = 1

\* C15: in api mode (well-formed replay id) every call of request and
\* upload_file reaches the backend, the client never holds a session (so no
\* interaction is recorded in memory), no call writes a file, and
\* verify_response returns without changing any field.
C15_ApiModeLiveAndNeverPersists ==
    [][ (ncalls' = ncalls + 1 /\ mode = "api" /\ PathValid(replay_id)) =>
          /\ last'.op \in {"_request", "upload_file"} => last'.live = 1
          /\ replay_session' = <<>>
          /\ disk' = disk
          /\ last'.op = "_verify_response" =>
                /\ last'.kind = "return"
                /\ UNCHANGED <<mode, replay_id, replay_session, replay_index,
                               sdk_response_index, disk>>
      ]_vars

\* an api-mode client whose request went to the backend although a replay
\* file exists for its id
C15_Witness ==
    /\ mode = "api"
    /\ PathValid(replay_id)
    /\ disk[ReplaysDirectory \o replay_id \o <<".json">>] # <<>>
    /\ last.op = "_request"
    /\ last.kind = "return"
    /\ last.live = 1
    /\ replay_session = <<>>

\* the SDK-response list the last call of verify_response compared with, in
\* replay mode: that of the interaction matched by the most recent request
VerifiedAgainst ==
    Interactions[last.entry.idx].response.sdk_response_segments

\* the last call was a verify_response on a replayed session, after a
\* matched request, with an entry left in that interaction's list
VerifiedFromReplay ==
    /\ mode = "replay"
    /\ last.op = "_verify_response"
    /\ last.entry.loaded
    /\ last.entry.idx >= 1
    /\ last.entry.sdk < Len(VerifiedAgainst)

\* C16: in replay mode verify_response compares the serialized object with
\* entry number _sdk_response_index of the SDK-response list of the
\* interaction matched by the most recent request; when they are equal it
\* returns and advances _sdk_response_index by one, when they differ it
\* raises AssertionError and leaves both cursors unchanged.
C16_VerifyComparesNextSdkEntry ==
    VerifiedFromReplay =>
        /\ replay_index = last.entry.idx
        /\ IF JsonDumps(last.value) = JsonDumps(VerifiedAgainst[last.entry.sdk + 1])
           THEN last.kind = "return" /\ sdk_response_index = last.entry.sdk + 1
           ELSE /\ last.kind = "AssertionError"
                /\ last.at = "sdk"
                /\ sdk_response_index = last.entry.sdk

\* the second entry of the list was compared and found equal
C16_Witness ==
    /\ VerifiedFromReplay
    /\ last.entry.sdk = 1
    /\ last.kind = "return"
    /\ sdk_response_index = 2

\* C17: in record mode verify_response, called on a session that has
\* recorded an interaction, appends the serialized object to the
\* SDK-response list of the interaction recorded last and changes nothing
\* else: no other interaction, no other part of that one, no cursor, no
\* other field.
C17_RecordVerifyAppendsToLast ==
    [][ ( /\ Called("_verify_response")
          /\ mode = "record"
          /\ PathValid(replay_id)
          /\ replay_session # <<>>
          /\ Len(replay_session[1].interactions) >= 1 ) =>
          LET old == replay_session[1].interactions
              new == replay_session'[1].interactions
              n == Len(old)
          IN /\ last'.kind = "return"
             /\ Len(new) = n
             /\ new[n].response.sdk_response_segments =
                   Append(old[n].response.sdk_response_segments, last'.value)
             /\ new[n].request = old[n].request
             /\ new[n].response.status_code = old[n].response.status_code
             /\ new[n].response.headers = old[n].response.headers
             /\ new[n].response.body_segments = old[n].response.body_segments
             /\ \A i \in 1..(n - 1) : new[i] = old[i]
             /\ replay_session'[1].replay_id = replay_session[1].replay_id
             /\ UNCHANGED <<mode, replay_id, replay_index, sdk_response_index, disk>>
      ]_vars

\* the object was appended to the second of two recorded interactions
C17_Witness ==
    /\ mode = "record"
    /\ last.op = "_verify_response"
    /\ last.kind = "return"
    /\ Len(Interactions) = 2
    /\ Interactions[1].response.sdk_response_segments = <<>>
    /\ Interactions[2].response.sdk_response_segments = <<last.value>>

\* C18: redaction is idempotent: redacting the redacted form of a request
\* handed to _request leaves its headers, url and body as they are.
C18_RedactionIdempotent ==
    last.op = "_request" =>
        LET once == RedactHttpRequest(last.request)
            twice == RedactHttpRequest(once)
        IN /\ twice.headers = once.headers
           /\ twice.url = once.url
           /\ twice.data = once.data

\* the interactions in the replay file of the replay id, none without file
Persisted ==
    LET path == ReplaysDirectory \o replay_id \o <<".json">> IN
    IF disk[path] = <<>> THEN <<>> ELSE disk[path][1].interactions

\* two requests are the same logical call built in two environments
SameLogicalCall(q1, q2) ==
    \E call \in LogicalCalls : \E e1, e2 \in Envs :
        q1 = EnvRequest(call, e1) /\ q2 = EnvRequest(call, e2)

NeededPath ==
    \/ last.op = "initialize_replay_session"
    \/ last.op = "_request" /\ ~last.entry.loaded
    \/ last.op = "upload_file" /\ mode = "auto"
    \/ last.op = "close" /\ (mode = "auto" \/ (mode = "record" /\ last.entry.loaded))

\* C20: the replay file of the id "tests/generate/mldev" is
\* <dir>/tests/generate/mldev.json, which is where close() writes; with an
\* id of fewer than 3 segments every call that needs the path raises a
\* ValueError naming the id, in every mode.
C20_PathFromReplayId ==
    /\ ( /\ replay_id = <<"tests", "generate", "mldev">>
         /\ mode = "record"
         /\ last.op = "close"
         /\ last.entry.loaded )
       => /\ last.kind = "return"
          /\ disk[<<"replays", "tests", "generate", "mldev", ".json">>] # <<>>
    /\ (Len(replay_id) < 3 /\ NeededPath)
       => /\ last.kind = "ValueError"
          /\ \E i \in 1..Len(last.msg) : last.msg[i] = replay_id

\* close() of a record-mode client that holds a session and was given an
\* id of two segments
C20_Witness ==
    /\ Len(replay_id) < 3
    /\ mode = "record"
    /\ last.op = "close"
    /\ last.entry.loaded
    /\ last.kind = "ValueError"

(***************************************************************************)
(* Claims about the options merge (checked under SpecOptions).             *)
(***************************************************************************)
\* a merge ran in this step and returned
MergeReturns == merges' = merges + 1 /\ merge_outcome' = "return"
\* the first argument of the merge of this step
BaseOfMerge == IF copy_option = <<>> THEN options ELSE copy_option[1]
\* None, '' or an empty map
IsEmptyValue(h, v) ==
    \/ v.t = "none"
    \/ v.t = "str" /\ v.s = <<"">>
    \/ v.t = "dict" /\ DOMAIN h[v.ref] = {}
IdentityHeaders == {"user-agent", "x-goog-api-client"}
\* the merged value of key k is the base value (for a header map: every
\* base header but the identity headers, which the merge completes)
KeepsBaseValue(k) ==
    /\ k \in DOMAIN copy_option'[1]
    /\ copy_option'[1][k].t = BaseOfMerge[k].t
    /\ copy_option'[1][k].s = BaseOfMerge[k].s
    /\ BaseOfMerge[k].t = "dict" =>
          LET before == heap[BaseOfMerge[k].ref]
              after == heap'[copy_option'[1][k].ref]
          IN \A name \in (DOMAIN before) \ IdentityHeaders :
                name \in DOMAIN after /\ after[name] = before[name]
\* the merged value of key k is the override value (for a header map: every
\* override header but the identity headers)
TakesOverrideValue(k) ==
    /\ k \in DOMAIN copy_option'[1]
    /\ copy_option'[1][k].t = patch_options[k].t
    /\ copy_option'[1][k].s = patch_options[k].s
    /\ patch_options[k].t = "dict" =>
          LET given == heap[patch_options[k].ref]
              after == heap'[copy_option'[1][k].ref]
          IN \A name \in (DOMAIN given) \ IdentityHeaders :
                name \in DOMAIN after /\ after[name] = given[name]

\* C24: a merge never overwrites with an empty value: for every key of the
\* override whose value is None, '' or an empty map the merged
\* configuration keeps the base value of that key, and for every key whose
\* value is not empty the merged configuration has the override value.
C24_MergeKeepsBaseOnEmptyOverride ==
    [][ MergeReturns =>
          \A k \in DOMAIN patch_options :
             IF IsEmptyValue(heap, patch_options[k])
             THEN k \in DOMAIN BaseOfMerge => KeepsBaseValue(k)
             ELSE TakesOverrideValue(k)
      ]_vars

\* the number of places where marker occurs in value
Occurrences(value, marker) ==
    Cardinality({i \in 0..(Len(value) - Len(marker)) :
                    SubSeq(value, i + 1, i + Len(marker)) = marker})

\* C25: the merge is idempotent: merging the override into what the merge
\* returned gives the same configuration, header map included, and after
\* every merge the SDK identity marker occurs exactly once in 'user-agent'
\* and exactly once in 'x-goog-api-client'.
C25_MergeIdempotent ==
    [][ MergeReturns =>
          /\ LET merged == heap'[copy_option'[1]["headers"].ref]
             IN \A name \in IdentityHeaders :
                   /\ name \in DOMAIN merged
                   /\ Occurrences(merged[name], VersionHeader) = 1
          /\ copy_option # <<>> =>
                Config(heap', copy_option'[1]) = Config(heap, copy_option[1])
      ]_vars

\* the override, carrying an agent of its own, was merged into a base with
\* an agent and then into the result again
C25_Witness ==
    /\ merges >= 2
    /\ merge_outcome = "return"
    /\ "headers" \in DOMAIN options
    /\ "headers" \in DOMAIN patch_options
    /\ patch_options["headers"].t = "dict"
    /\ heap[options["headers"].ref] = HeadersMldev
    /\ "user-agent" \in DOMAIN heap[patch_options["headers"].ref]
    /\ heap[copy_option[1]["headers"].ref]["user-agent"]
          = CustomAgent \o <<" ">> \o VersionHeader

\* C26: the merge never mutates the original: after
\* _patch_http_options(B, O), B holds the entries it held before and so
\* does B's header map, also for an O without a 'headers' entry.
C26_MergeLeavesBaseUnchanged ==
    [][ merges' = merges + 1 =>
          /\ BaseOfMerge = IF copy_option = <<>> THEN options' ELSE copy_option[1]
          /\ "headers" \in DOMAIN BaseOfMerge =>
                heap'[BaseOfMerge["headers"].ref] = heap[BaseOfMerge["headers"].ref]
      ]_vars

(***************************************************************************)
(* Claims about ApiClient.request, its streamed variants and               *)
(* HttpResponse.segments (checked under SpecApi).                          *)
(***************************************************************************)
\* the call is over
ApiDone == api_pc \in {"returned", "raised"}
\* the raw segments or lines of the response
RawSegments == session_response[1].response_stream.items
\* one decoded value per raw segment: {} for an empty one, else the JSON
\* after the optional 'data: ' prefix
DecodedPerSegment(raw) ==
    [i \in 1..Len(raw) |->
        IF raw[i] = "" THEN EmptyObj ELSE JsonLoads(StripDataPrefix(raw[i]))]

\* C21: segments() over a buffered list of raw segments yields one decoded
\* value per segment, in order: an empty segment gives an empty object and
\* a segment with the 'data: ' prefix the JSON after the prefix.
C21_BufferedSegmentsDecodeEach ==
    api_op = "segments" =>
        /\ IsPrefix(received, DecodedPerSegment(RawSegments))
        /\ ApiDone => /\ api_pc = "returned"
                      /\ received = DecodedPerSegment(RawSegments)

\* C22: request sends the request it built once, not streaming, and
\* returns the parsed body, or '' for an empty body; a response_payload
\* slot holds the response headers when request returns.
C22_RequestReturnsParsedBody ==
    (api_op = "request" /\ api_pc = "returned") =>
        /\ Len(transport) = 1
        /\ ~transport[1].stream
        /\ transport[1].request = built[1]
        /\ Len(RawSegments) = 1
        /\ api_outcome.value = IF RawSegments[1] = "" THEN EmptyStr
                               ELSE JsonLoads(RawSegments[1])
        /\ HasSlot(api_args.http_options) =>
              /\ response_payload # <<>>
              /\ "headers" \in DOMAIN response_payload[1]
              /\ response_payload[1]["headers"] = <<session_response[1].headers>>

\* request returned the parsed body of a response and filled the slot
C22_Witness ==
    /\ api_op = "request"
    /\ api_pc = "returned"
    /\ api_outcome.value = ObjA
    /\ response_payload # <<>>
    /\ "headers" \in DOMAIN response_payload[1]

\* the slot of the call holds an entry
SlotPopulated == response_payload # <<>> /\ DOMAIN response_payload[1] # {}

\* C23: in request_streamed and async_request_streamed the response_payload
\* slot is populated only after the segments are drained: while the
\* consumer has received fewer than all segments the slot is empty.
C23_SlotPopulatedAfterDrain ==
    (api_op \in {"request_streamed", "async_request_streamed"} /\ SlotPopulated) =>
        /\ session_response # <<>>
        /\ received = SegmentsOfLines(RawSegments)

\* the body of the caller's mapping without the keys that begin with '_'
PublicKeys(d) == {k \in DOMAIN d : ~IsInternalKey(k)}

\* C27: the body of every request handed to the transport has no top-level
\* key that begins with '_', and holds every other key of the caller's
\* mapping with its value.
C27_InternalKeysStripped ==
    \A i \in 1..Len(transport) :
        LET data == transport[i].request.data
        IN /\ \A k \in DOMAIN data : ~IsInternalKey(k)
           /\ DOMAIN data = PublicKeys(api_args.request_dict)
           /\ \A k \in DOMAIN data : data[k] = api_args.request_dict[k]

\* a mapping with two internal keys and two others went to the transport
C27_Witness ==
    /\ Len(transport) = 1
    /\ {"_url", "_query"} \subseteq DOMAIN api_args.request_dict
    /\ DOMAIN transport[1].request.data = {"name", "config"}

\* the base address of the call, without its trailing slash
BaseAddress ==
    LET base_url == IF Truthy(api_args.http_options)
                       /\ "base_url" \in DOMAIN api_args.http_options[1]
                    THEN api_args.http_options[1]["base_url"].s
                    ELSE IF vertexai THEN <<"https:", "", "l-aiplatform.googleapis.com", "">>
                         ELSE <<"https:", "", "generativelanguage.googleapis.com", "">>
    IN IF base_url[Len(base_url)] = "" THEN SubSeq(base_url, 1, Len(base_url) - 1)
       ELSE base_url
\* 'projects/p/locations/l' on the cloud-IAM backend for a path that does
\* not start with 'projects/'
ScopeOf(path) ==
    IF vertexai /\ path[1] # "projects"
    THEN <<"projects", "p", "locations", "l">>
    ELSE <<>>

\* C28: the URL of a built request is the base address, the API version
\* and the path joined by single slashes; on the cloud-IAM backend a path
\* that does not start with 'projects/' gets 'projects/p/locations/l/' in
\* front once, a path that does is left as it is, and on the API-key
\* backend no prefix is added.
C28_UrlFromBaseVersionPath ==
    built # <<>> =>
        /\ built[1].url = BaseAddress
                            \o <<IF vertexai THEN "v1beta1" ELSE "v1beta">>
                            \o ScopeOf(api_args.path) \o api_args.path
        /\ \A i \in 3..Len(built[1].url) : built[1].url[i] # ""

\* a request for 'projects/p/locations/l/models/m' was built on the
\* cloud-IAM backend, and so was one for 'files/f'
C28_Witness ==
    /\ vertexai
    /\ built # <<>>
    /\ api_args.path = PathTuned
    /\ built[1].url = <<"https:", "", "l-aiplatform.googleapis.com", "v1beta1">>
                         \o PathTuned

\* C29: when the status of the response indicates failure the send raises
\* an API error and the caller sees no response: request returns no value,
\* request_streamed yields no segment, and a response_payload slot stays
\* empty.
C29_FailureStatusRaisesBeforeResponse ==
    \A i \in 1..Len(transport) :
        transport[i].status_code \notin 200..299 =>
            /\ api_pc = "raised"
            /\ api_outcome = ApiOutcome("APIError", EmptyStr)
            /\ session_response = <<>>
            /\ received = <<>>
            /\ ~SlotPopulated

\* a streamed call with a slot on the cloud-IAM backend met a failure status
C29_Witness ==
    /\ vertexai
    /\ api_op = "request_streamed"
    /\ Len(transport) = 1
    /\ transport[1].status_code = 400
    /\ response_payload = <<NoHeaders>>
    /\ api_outcome.kind = "APIError"

\* the call is one of the two streamed calls and its send was answered
StreamedCall ==
    /\ api_op \in {"request_streamed", "async_request_streamed"}
    /\ session_response # <<>>
    /\ ~session_response[1].response_stream.buffered
\* every non-empty line is JSON once the 'data: ' prefix is removed
AllLinesValid(lines) ==
    \A i \in 1..Len(lines) : lines[i] = "" \/ IsJson(StripDataPrefix(lines[i]))
RECURSIVE DecodedLines(_)
\* the objects of the non-empty lines before the first line that is not
\* JSON, in line order
DecodedLines(lines) ==
    IF lines = <<>> THEN <<>>
    ELSE IF Head(lines) = "" THEN DecodedLines(Tail(lines))
    ELSE IF ~IsJson(StripDataPrefix(Head(lines))) THEN <<>>
    ELSE <<JsonLoads(StripDataPrefix(Head(lines)))>> \o DecodedLines(Tail(lines))

\* C32: segments() over a live line stream yields one decoded object per
\* non-empty line, in line order, after removing an optional 'data: '
\* prefix; empty lines yield nothing; a line that is not JSON fails the
\* call at that line, after the objects of all earlier lines were yielded.
C32_StreamSegmentsDecodeLines ==
    StreamedCall =>
        /\ IsPrefix(received, DecodedLines(RawSegments))
        /\ api_pc = "returned" =>
              /\ AllLinesValid(RawSegments)
              /\ received = DecodedLines(RawSegments)
        /\ api_outcome.kind = "JSONDecodeError" =>
              /\ ~AllLinesValid(RawSegments)
              /\ received = DecodedLines(RawSegments)
        /\ (api_pc = "streaming" /\ pending = <<>>) =>
              received = DecodedLines(RawSegments)

\* a stream whose third line is not JSON: the object of the first line was
\* yielded, then the call failed
C32_Witness ==
    /\ StreamedCall
    /\ RawSegments = BrokenLines
    /\ received = <<ObjA>>
    /\ api_pc = "raised"
    /\ api_outcome.kind = "JSONDecodeError"

(***************************************************************************)
(* Claims about the credentials of the sends (checked under SpecAuth).     *)
(***************************************************************************)
\* C33: on an IAM-backend client application-default credentials are
\* fetched at most once over the sends, by the first send that goes out,
\* and not at all when credentials were supplied at construction; every
\* request goes out with a credential; an API-key client never fetches.
C33_CredentialsFetchedAtMostOnce ==
    /\ fetches <= 1
    /\ credentials = <<"supplied">> => fetches = 0
    /\ ~vertexai => fetches = 0
    /\ (vertexai /\ wire # <<>> /\ credentials # <<"supplied">>) => fetches = 1
    /\ \A i \in 1..Len(wire) :
          IF vertexai
          THEN /\ wire[i].session = "AuthorizedSession"
               /\ wire[i].credentials # <<>>
               /\ wire[i].credentials = credentials
          ELSE wire[i].session = "Session"

\* three sends of an IAM client constructed without credentials went out
\* after one fetch
C33_Witness ==
    /\ vertexai
    /\ Len(wire) = 3
    /\ fetches = 1
    /\ credentials = <<"default">>
    /\ \E i \in 1..3 : wire[i].op = "_async_request"

(***************************************************************************)
(* Claims about concurrent calls on one replay client (checked under       *)
(* SpecRace).                                                              *)
(***************************************************************************)
\* every worker is outside _request
AllAtRest == \A w \in Workers : AtRest(w)
\* the calls before call m that were compared all matched
EarlierPassed(m) == \A n \in matched : n.k < m.k => n.passed
\* the number of calls whose request matched
Served == Cardinality({m \in matched : m.passed})

C35_UploadTerminates == <>(upload_pc \in {"returned", "raised"})

\* C36: upload_file returns a value only after all upload_size bytes were
\* sent: when it has returned, offset >= upload_size and a request with
\* the finalize command was sent (checked under SpecUpload).
C36_ReturnsOnlyAfterAllSent ==
    upload_pc = "returned" =>
        /\ offset >= upload_size
        /\ \E i \in 1..Len(sent) : Finalizes(sent[i])

(***************************************************************************)
(* Claims about the cursor of a replaying session (checked under           *)
(* SpecMatch).                                                             *)
(***************************************************************************)
\* C37: in a replaying session 0 <= _replay_index <= number of recorded
\* interactions; a call of _request made when every recorded interaction
\* is consumed, or when the fixture holds none, raises, does not reach the
\* backend and leaves the cursor where it was.
C37_CursorWithinRecording ==
    replay_session # <<>> =>
        /\ 0 <= replay_index
        /\ replay_index <= Len(Interactions)
        /\ (last.op = "_request" /\ CursorOnEntry = Len(Interactions)) =>
              /\ last.kind = "IndexError"
              /\ last.live = 0
              /\ replay_index = CursorOnEntry

\* both interactions of a recording were replayed and a third call failed
C37_Witness ==
    /\ replay_session # <<>>
    /\ Len(Interactions) = 2
    /\ last.op = "_request"
    /\ last.entry.loaded
    /\ last.entry.idx = 2
    /\ last.kind = "IndexError"
    /\ replay_index = 2

(***************************************************************************)
(* Replay against the recording (checked under SpecMatch).                 *)
(***************************************************************************)
\* how step i of a recording test ended on the record-mode client
LiveOutcome(script, i) ==
    DoRequest(RunScript(NoRecording, SubSeq(script, 1, i - 1)),
              script[i].request, script[i].stream, script[i].live).out
\* what the caller of request (stream false) or request_streamed (stream
\* true) gets from a call of _request that ended as out: the parsed text,
\* or the decoded segments
CallerValue(out, stream) ==
    IF stream THEN SegmentsOfList(out.response_stream)
    ELSE IF out.response_stream = <<>> THEN <<>>
    ELSE <<TextOf(out.response_stream)>>
SameResult(replayed, live, stream) ==
    /\ replayed.kind = live.kind
    /\ replayed.kind = "return" =>
          CallerValue(replayed, stream) = CallerValue(live, stream)
    /\ replayed.kind = "APIError" => replayed.code = live.code

\* C38: the replay is observationally equivalent to the live transport it
\* recorded: the call that replays a recorded interaction gives the caller
\* the result the live call gave when it was recorded: the same return
\* value of request ('' for an empty body included), the same decoded
\* segments of request_streamed, an APIError with the same status code.
C38_ReplayEquivalentToLive ==
    \A script \in MatchScripts :
        ( /\ disk = Recorded(script).disk
          /\ recorded = Recorded(script).recorded
          /\ last.op = "_request"
          /\ ncalls = CursorOnEntry + 1
          /\ CursorOnEntry < Len(script)
          /\ last.request = script[CursorOnEntry + 1].request )
        => SameResult(last, LiveOutcome(script, CursorOnEntry + 1),
                      script[CursorOnEntry + 1].stream)

(***************************************************************************)
(* The session of an auto-mode client (checked under SpecAuto).            *)
(***************************************************************************)
\* the client's first call found no fixture: it went to the backend and
\* its session holds what it recorded
RecordingSession == replay_session # <<>> /\ recording # <<>>

\* C39: in auto mode the decision is stable: once the first call of a
\* client found no fixture, every later call of the session goes to the
\* backend and close() persists all the interactions the client recorded,
\* also when another client wrote a replay file for the same id meanwhile.
C39_AutoDecisionStable ==
    [][ (RecordingSession /\ ncalls' = ncalls + 1) =>
          /\ last'.op = "_request" => last'.live = 1
          /\ last'.op = "close" =>
                /\ disk'[GetReplayFilePath(Client)] # <<>>
                /\ Len(disk'[GetReplayFilePath(Client)][1].interactions)
                      = Len(recording)
                /\ recorded' = recording
      ]_vars

(***************************************************************************)
(* Claims about t_resolve_operation (checked under SpecPoll).              *)
(***************************************************************************)
\* a/b <= c/d for fractions
AtMost(a, b) == a.num * b.den <= b.num * a.den
\* the fraction a times 3/2, against b
TimesMultiplier(a) == [num |-> a.num * 3, den |-> a.den * 2]
SameSeconds(a, b) == a.num * b.den = b.num * a.den
Twenty == [num |-> 20, den |-> 1]

\* C30: a call on an operation that is not done polls until the first
\* report with done=true and returns the 'response' of that report; the
\* delays start at 1.0 s, each is 1.5 times the one before or 20 s when
\* that is less, they never decrease and never exceed 20 s.
C30_PollsUntilDoneWithBackoff ==
    /\ \A i \in 1..(Len(polls) - 1) : polls[i].done # "true"
    /\ poll_pc = "loop" => operation.done # "true"
    /\ (poll_pc = "returned" /\ polls # <<>>) =>
          /\ polls[Len(polls)].done = "true"
          /\ poll_outcome = PollOutcome("return", polls[Len(polls)].response)
    /\ (polls # <<>> /\ polls[Len(polls)].done = "true"
           /\ polls[Len(polls)].error = <<>>) => poll_pc = "returned"
    /\ Len(sleeps) = Len(polls)
    /\ sleeps # <<>> => SameSeconds(sleeps[1], [num |-> 1, den |-> 1])
    /\ \A i \in 1..Len(sleeps) : AtMost(sleeps[i], Twenty)
    /\ \A i \in 1..(Len(sleeps) - 1) :
          /\ AtMost(sleeps[i], sleeps[i + 1])
          /\ IF AtMost(TimesMultiplier(sleeps[i]), Twenty)
             THEN SameSeconds(sleeps[i + 1], TimesMultiplier(sleeps[i]))
             ELSE SameSeconds(sleeps[i + 1], Twenty)

\* three GETs answered done=false, the fourth done=true with {"x":1}: the
\* call returned {"x":1}
C30_Witness ==
    /\ Len(polls) = 4
    /\ \A i \in 1..3 : polls[i] = Operation(TRUE, "false", <<>>, <<>>)
    /\ polls[4] = Operation(TRUE, "true", <<ObjX>>, <<>>)
    /\ poll_pc = "returned"
    /\ poll_outcome = PollOutcome("return", <<ObjX>>)
    /\ sleeps[4] = [num |-> 27, den |-> 8]

\* seconds in 256ths (the delays are k/2^j with j <= 7, or 20)
Ticks(a) == (a.num * 256) \div a.den
RECURSIVE TicksOf(_)
TicksOf(s) == IF s = <<>> THEN 0 ELSE Ticks(Head(s)) + TicksOf(Tail(s))
\* the time the call has slept is more than the timeout budget
BudgetExceeded == TicksOf(sleeps) > LRO_POLLING_TIMEOUT_SECONDS * 256

\* C31: the poll loop is bounded: on an operation that does not report
\* done, once the time slept exceeds the 900 s budget the call has stopped
\* polling and raised the timeout error.
C31_TimeoutBoundsPolling ==
    (BudgetExceeded /\ operation.done # "true") =>
        /\ poll_pc = "raised"
        /\ poll_outcome = PollOutcome("RuntimeError", <<>>)

(***************************************************************************)
(* Claims about the web server (checked under SpecServer).                 *)
(***************************************************************************)
\* the GET responses that carried audio
ServedAudio(i) ==
    /\ answered[i].route = "get-audio-response"
    /\ answered[i].code = 200
    /\ answered[i].body # <<>>

\* C40: each audio response stored by a successful POST /process-audio is
\* served by GET /get-audio-response at most once, also when two GET
\* requests are handled concurrently: no two GET responses carry the audio
\* of the same store.
C40_AudioServedAtMostOnce ==
    \A i, j \in DOMAIN answered :
        (i # j /\ ServedAudio(i) /\ ServedAudio(j)) => answered[i].body # answered[j].body

=============================================================================
